---- MODULE Spec2Model ----
(***************************************************************************)
(* A state-machine model of the lockset vault service: the signature gate  *)
(* (middleware/auth.rs), the router (main.rs, routes.rs), the secret       *)
(* service with its proxied-refresh state machine (services/secrets.rs),   *)
(* the repositories (repositories/*.rs) over a READ COMMITTED store with   *)
(* row locks, and the envelope encryption (crypto.rs).                     *)
(***************************************************************************)
EXTENDS Integers, Sequences, FiniteSets, TLC

\* ------------------------------------------------------------------ bounds
\* Last second the wall clock reaches.
MaxTime == 1
\* Last id the data_encryption_keys sequence hands out.
MaxDeks == 4
\* Width of the signed integer that stands for i64 (scaled down from 64).
TsBits == 16
\* Gate clock (ms since epoch) at the start of a run, and how often it advances.
GateEpoch == 10000
GateTicks == 2
\* The longest tag of the exhaustive part of the tags given to get_next_version_tag.
MaxTagLen == 2
\* Width of the unsigned integer that stands for u32 in a chain of mints
\* (scaled down from 32).
MintBits == 2

\* ------------------------------------------------------- program constants
MAX_BODY_SIZE == 262144
MAX_TIMESTAMP_DIFF_MS == 5000
DEFAULT_TTL_SECONDS == 3600
\* validators::validate_vault_config: the longest config, in bytes.
MAX_CONFIG_LEN == 4096
\* Option<T>: None is the empty tuple, Some(x) the one-element tuple.
None == <<>>
Some(x) == <<x>>
IsSome(o) == o # <<>>
Unwrap(o) == o[1]

RECURSIVE Pow2(_)
Pow2(n) == IF n = 0 THEN 1 ELSE 2 * Pow2(n - 1)
I64_MIN == 0 - Pow2(TsBits - 1)
I64_MAX == Pow2(TsBits - 1) - 1
InI64(x) == I64_MIN <= x /\ x <= I64_MAX
\* Two's-complement wrap-around of a result that left the integer's range.
WrapI64(x) == ((x - I64_MIN) % Pow2(TsBits)) + I64_MIN

\* ------------------------------------------------------------------ errors
\* AppError::into_response: the HTTP status of each error.
StatusOf(err) ==
    CASE err = "Ok"                 -> 200
      [] err = "Created"            -> 201
      [] err = "NoContent"          -> 204
      [] err = "DatabaseError"      -> 500
      [] err = "KmsError"           -> 500
      [] err = "NotFoundError"      -> 404
      [] err = "Conflict"           -> 409
      [] err = "InvalidInput"       -> 400
      [] err = "CryptoError"        -> 500
      [] err = "MethodNotAllowed"   -> 405
      [] err = "Unauthorized"       -> 401
      [] err = "JsonExtractionError" -> 400
      [] err = "ValidationError"    -> 400
      [] err = "Panic"              -> 0
      [] OTHER                      -> 500

\* A unique violation mapped like any other database error.
FromSqlxError_always_database(err) == "DatabaseError"
\* impl From<sqlx::Error> for AppError: a unique violation is Conflict, any
\* other error (RowNotFound among them) is DatabaseError.
FromSqlxError(err) == IF err = "unique_violation" THEN "Conflict" ELSE "DatabaseError"

\* ------------------------------------------------------------ version tags
\* A tag is a sequence of one-character strings.
Digits == {"0", "1", "2", "3", "4", "5", "6", "7", "8", "9"}
Letters == {"v", "a", "b", "c", "e", "i", "k", "p", "t", "y"}
Alnum == Digits \cup Letters
TagChars == Alnum \cup {"_", ".", "-"}

DigitVal(c) ==
    CASE c = "0" -> 0 [] c = "1" -> 1 [] c = "2" -> 2 [] c = "3" -> 3
      [] c = "4" -> 4 [] c = "5" -> 5 [] c = "6" -> 6 [] c = "7" -> 7
      [] c = "8" -> 8 [] c = "9" -> 9

DigitChar(n) ==
    CASE n = 0 -> "0" [] n = 1 -> "1" [] n = 2 -> "2" [] n = 3 -> "3"
      [] n = 4 -> "4" [] n = 5 -> "5" [] n = 6 -> "6" [] n = 7 -> "7"
      [] n = 8 -> "8" [] n = 9 -> "9"

\* validators.rs: ^[a-zA-Z0-9]([a-zA-Z0-9_.-]*[a-zA-Z0-9])?$
get_version_tag_regex(tag) ==
    /\ Len(tag) >= 1
    /\ tag[1] \in Alnum
    /\ tag[Len(tag)] \in Alnum
    /\ \A i \in 1..Len(tag) : tag[i] \in TagChars

\* models.rs: #[validate(regex(...))] and #[validate(length(min = 1, max = 20))]
ValidVersionTag(tag) == get_version_tag_regex(tag) /\ Len(tag) >= 1 /\ Len(tag) <= 20

\* The ending-number regex matches the decimal run a tag ends in; this is the
\* index at which that run starts (Len(tag) + 1 when the tag ends in no digit).
RECURSIVE EndingNumberStart(_, _)
EndingNumberStart(tag, i) ==
    IF i >= 1 /\ tag[i] \in Digits THEN EndingNumberStart(tag, i - 1) ELSE i + 1

\* Decimal strings, as str::parse::<u32> and format!("{}", n) treat them.
RECURSIVE StripZeros(_)
StripZeros(ds) ==
    IF Len(ds) > 1 /\ ds[1] = "0" THEN StripZeros(Tail(ds)) ELSE ds

U32_MAX_DIGITS == <<"4", "2", "9", "4", "9", "6", "7", "2", "9", "5">>

RECURSIVE DecLeq(_, _)
DecLeq(a, b) ==
    IF Len(a) # Len(b) THEN Len(a) < Len(b)
    ELSE IF Len(a) = 0 THEN TRUE
    ELSE IF a[1] # b[1] THEN DigitVal(a[1]) < DigitVal(b[1])
    ELSE DecLeq(Tail(a), Tail(b))

\* parse::<u32>() is Ok exactly when the value is at most u32::MAX.
ParsesAsU32(ds) == DecLeq(StripZeros(ds), U32_MAX_DIGITS)

RECURSIVE DecIncrement(_)
DecIncrement(ds) ==
    IF Len(ds) = 0 THEN <<"1">>
    ELSE IF ds[Len(ds)] # "9"
         THEN SubSeq(ds, 1, Len(ds) - 1) \o <<DigitChar(DigitVal(ds[Len(ds)]) + 1)>>
         ELSE DecIncrement(SubSeq(ds, 1, Len(ds) - 1)) \o <<"0">>

\* SecretService::get_next_version_tag. `num + 1` on u32::MAX panics in a build
\* with overflow checks and wraps to 0 in one without.
get_next_version_tag(current_tag, overflow_checks) ==
    LET start == EndingNumberStart(current_tag, Len(current_tag))
        run == SubSeq(current_tag, start, Len(current_tag))
        prefix == SubSeq(current_tag, 1, start - 1)
    IN  IF start > Len(current_tag)
        THEN [panic |-> FALSE, tag |-> current_tag \o <<"-", "1">>]
        ELSE IF ~ParsesAsU32(run)
        THEN [panic |-> FALSE, tag |-> current_tag \o <<"-", "1">>]
        ELSE IF StripZeros(run) = U32_MAX_DIGITS
        THEN IF overflow_checks
             THEN [panic |-> TRUE, tag |-> <<>>]
             ELSE [panic |-> FALSE, tag |-> prefix \o <<"0">>]
        ELSE [panic |-> FALSE, tag |-> prefix \o DecIncrement(StripZeros(run))]

\* ------------------------------------------------------------------ crypto
\* crypto::sha256_hash: hex(SHA-256(data)), collision-free.
sha256_hash(data) == <<"sha256", data>>

\* key_encryption_keys: provisioned out of band, read-only to the service.
KekTable == {[id |-> 1, kms_key |-> "kms-key-1"]}

\* KMS GenerateDataKey under `kms_key`: a fresh AES-256 key (named by `fresh`)
\* and that key wrapped under `kms_key`.
KmsGenerateDataKey(kms_key, fresh) ==
    [plaintext |-> <<"data-key", fresh>>,
     ciphertext_blob |-> [kms_key |-> kms_key, wrapped |-> <<"data-key", fresh>>]]

\* KMS Decrypt pinned to `kms_key`: the wrapped key, or an error when the blob
\* was wrapped under another key.
KmsDecrypt(kms_key, blob) ==
    IF blob.kms_key = kms_key THEN Some(blob.wrapped) ELSE None

\* The seal under a key other than the data key the KMS returned.
AesGcmSeal_other_key(key, plaintext) == [key |-> <<"data-key", 0>>, plaintext |-> plaintext]
\* Aes256Gcm encrypt: nonce || ciphertext-with-tag under `key`, hex-encoded.
AesGcmSeal(key, plaintext) == [key |-> key, plaintext |-> plaintext]

\* crypto::encrypt: the DEK row it inserts in the transaction (id `dek_id` from
\* the sequence) and the EncryptedPayload it returns.
encrypt(dek_id, kek, plaintext) ==
    LET data_key == KmsGenerateDataKey(kek.kms_key, dek_id)
    IN  [dek |-> [id |-> dek_id, kek_id |-> kek.id,
                  encrypted_key |-> data_key.ciphertext_blob, algo |-> "AES-256-GCM"],
         payload |-> [dek_id |-> dek_id,
                      encrypted_blob |-> AesGcmSeal(data_key.plaintext, plaintext),
                      sha256sum |-> sha256_hash(plaintext)]]

\* crypto::decrypt against the committed DEK table `dek_table`.
decrypt(dek_table, dek_id, encrypted_value) ==
    LET found == {d \in dek_table : d.id = dek_id}
    IN  IF found = {} THEN [error |-> "DatabaseError", value |-> ""]
        ELSE LET dek == CHOOSE d \in found : TRUE
                 kek == CHOOSE k \in KekTable : k.id = dek.kek_id
                 plaintext_dek == KmsDecrypt(kek.kms_key, dek.encrypted_key)
             IN  IF ~IsSome(plaintext_dek) THEN [error |-> "KmsError", value |-> ""]
                 ELSE IF encrypted_value.key # Unwrap(plaintext_dek)
                 THEN [error |-> "CryptoError", value |-> ""]
                 ELSE [error |-> "Ok", value |-> encrypted_value.plaintext]

\* ---------------------------------------------------------------- the gate
\* The key pair configured at boot (AppState.auth_verifying_key) and another.
AuthKey == "auth-key"
OtherKey == "other-key"

\* A request body: its length in bytes and its content.
EmptyBody == [len |-> 0, data |-> <<>>]

\* The digest verify_signature recomputes (auth.rs 65-73).
SignedDigest(timestamp_str, path, body_bytes) ==
    sha256_hash(<<timestamp_str, "\n", path, "\n", body_bytes>>)

\* A signature header: absent, not visible ASCII, not hex, not 64 bytes, or the
\* P-256 signature of `msg` by the owner of `key`.
NoSig(kind) == [kind |-> kind, key |-> "", msg |-> <<>>]
Sign(key, digest) == [kind |-> "sig", key |-> key, msg |-> digest]
\* VerifyingKey::verify
EcdsaVerify(verifying_key, digest, signature) ==
    signature.key = verifying_key /\ signature.msg = digest

GateOut(result, error, body) == [result |-> result, error |-> error, body |-> body]

\* (now_ms - timestamp_ms).abs() > MAX_TIMESTAMP_DIFF_MS in i64 arithmetic:
\* "panic" (a build with overflow checks aborts the task on overflow),
\* "outside" or "inside".
RecvWindow(now_ms, timestamp_ms, overflow_checks) ==
    LET diff == now_ms - timestamp_ms
        wrapped == WrapI64(diff)
    IN  IF ~InI64(diff) /\ overflow_checks THEN "panic"
        ELSE IF wrapped = I64_MIN
        THEN IF overflow_checks THEN "panic"
             ELSE IF I64_MIN > MAX_TIMESTAMP_DIFF_MS THEN "outside" ELSE "inside"
        ELSE IF (IF wrapped < 0 THEN 0 - wrapped ELSE wrapped) > MAX_TIMESTAMP_DIFF_MS
        THEN "outside" ELSE "inside"

\* An X-Timestamp header value: a sign ("" or "+") and decimal digits, written
\* <<sign, n>>, or text that is no integer, <<"x">>.
\* str::parse::<i64>: the number, unless the text is no integer or out of range.
ParseI64(text) == IF Len(text) = 2 /\ InI64(text[2]) THEN Some(text[2]) ELSE None

\* The path followed by the query string.
UriPath_with_query(r) == IF r.query = "" THEN r.path ELSE r.path \o <<"?", r.query>>
\* parts.uri.path(): the path component of the request URI, without the query.
UriPath(r) == r.path

\* A body read without a limit.
to_bytes_unlimited(body, limit) == Some(body)
\* axum::body::to_bytes(body, limit): the whole body, or an error when it is
\* longer than `limit` bytes.
to_bytes(body, limit) == IF body.len > limit THEN None ELSE Some(body)

\* middleware::auth::verify_signature: Forward (next.run with the body
\* restored), Reject with an AppError, or Panic.
verify_signature(r, now_ms, overflow_checks) ==
    IF r.x_signature.kind = "missing" THEN GateOut("Reject", "Unauthorized", EmptyBody)
    ELSE IF r.x_signature.kind = "not_str" THEN GateOut("Reject", "InvalidInput", EmptyBody)
    ELSE IF r.x_timestamp.kind = "missing" THEN GateOut("Reject", "Unauthorized", EmptyBody)
    ELSE IF r.x_timestamp.kind = "not_str" THEN GateOut("Reject", "InvalidInput", EmptyBody)
    ELSE IF ~IsSome(ParseI64(r.x_timestamp.text))
    THEN GateOut("Reject", "InvalidInput", EmptyBody)
    ELSE LET window == RecvWindow(now_ms, Unwrap(ParseI64(r.x_timestamp.text)),
                                  overflow_checks)
         IN  IF window = "panic" THEN GateOut("Panic", "", EmptyBody)
             ELSE IF window = "outside" THEN GateOut("Reject", "InvalidInput", EmptyBody)
             ELSE IF r.x_signature.kind = "bad_hex"
             THEN GateOut("Reject", "InvalidInput", EmptyBody)
             ELSE IF r.x_signature.kind = "bad_len"
             THEN GateOut("Reject", "InvalidInput", EmptyBody)
             ELSE IF r.method \notin {"GET", "DELETE"}
                     /\ ~IsSome(to_bytes(r.body, MAX_BODY_SIZE))
             THEN GateOut("Reject", "InvalidInput", EmptyBody)
             ELSE LET body_bytes == IF r.method \in {"GET", "DELETE"}
                                    THEN EmptyBody
                                    ELSE Unwrap(to_bytes(r.body, MAX_BODY_SIZE))
                      digest == SignedDigest(r.x_timestamp.text, UriPath(r), body_bytes)
                  IN  IF EcdsaVerify(AuthKey, digest, r.x_signature)
                      THEN GateOut("Forward", "", body_bytes)
                      ELSE GateOut("Reject", "Unauthorized", EmptyBody)

\* --------------------------------------------------------------- the router
\* A Router under construction: the routes registered so far and those of
\* them wrapped by the verify_signature layer.
RouterNew == [routes |-> {}, gated |-> {}]
\* Router::layer(from_fn_with_state(.., verify_signature)): wraps the routes
\* registered before the call, and no route added after it.
LayerVerifySignature(router) == [router EXCEPT !.gated = @ \cup router.routes]

\* routes::configure_routes: method, path pattern and handler of every route.
configure_routes(router) ==
  [router EXCEPT !.routes = @ \cup
    {[method |-> "POST", pattern |-> <<"v1", "secrets">>,
      handler |-> "SecretHandler::create_secret"],
     [method |-> "GET", pattern |-> <<"v1", "secrets", "{name}">>,
      handler |-> "SecretHandler::get_secret"],
     [method |-> "POST", pattern |-> <<"v1", "secrets", "{name}", "versions">>,
      handler |-> "SecretHandler::create_secret_version"],
     [method |-> "GET", pattern |-> <<"v1", "secrets", "{name}", "versions", "{tag}">>,
      handler |-> "SecretHandler::get_secret_version"],
     [method |-> "POST", pattern |-> <<"v1", "vault-connections">>,
      handler |-> "ConnectionHandler::create_vault_connection"],
     [method |-> "GET", pattern |-> <<"v1", "vault-connections", "{public_id}">>,
      handler |-> "ConnectionHandler::get_vault_connection"],
     [method |-> "DELETE", pattern |-> <<"v1", "vault-connections", "{public_id}">>,
      handler |-> "ConnectionHandler::delete_vault_connection"]}]

\* The layer applied to the empty router, before the routes are registered.
build_router_layer_first == configure_routes(LayerVerifySignature(RouterNew))
\* main::build_router
build_router == LayerVerifySignature(configure_routes(RouterNew))

IsParam(segment) == segment \in {"{name}", "{tag}", "{public_id}"}
Matches(route, method, path) ==
    /\ route.method = method
    /\ Len(route.pattern) = Len(path)
    /\ \A i \in 1..Len(path) : IsParam(route.pattern[i]) \/ route.pattern[i] = path[i]
\* The routes of the router that match a request (at most one).
MatchRoute(router, method, path) == {rt \in router.routes : Matches(rt, method, path)}

\* ---------------------------------------------------------------- the state
VARIABLES
    now,            \* wall clock, seconds (Utc::now)
    overflowChecks, \* whether the build checks integer overflow (dev) or wraps (release)
    deks,           \* data_encryption_keys, committed rows
    nextDekId,      \* the next value of the data_encryption_keys id sequence
    secrets,        \* secrets, committed rows (id is represented by the unique name)
    versions,       \* secret_versions, committed rows
    connections,    \* vault_connections, committed rows
    pc,             \* per request task: where it is suspended
    req,            \* per request task: the request it serves
    loc,            \* per request task: the local variables of the service function
    tx,             \* per request task: the open transaction (uncommitted writes, locks)
    resp,           \* the request answered by the last step and its response, if any
    written,        \* history: the plaintext each committed (secret, tag) was created with
    gate,           \* the gate on its own: clock, last request, outcome
    bump,           \* get_next_version_tag on its own: the tag passed in, the result
    heap            \* released memory that still holds key material or plaintext

vars == <<now, overflowChecks, deks, nextDekId, secrets, versions, connections,
          pc, req, loc, tx, resp, written, gate, bump, heap>>
db == <<deks, nextDekId, secrets, versions, connections>>

\* ---------------------------------------------------------------- the inputs
Procs == {1, 2}
Names == {"k"}
Values == {"A", "B"}
PublicIds == {"conn-0001"}
TagV == <<"v">>
TagV1 == <<"v", "1">>
TagV2 == <<"v", "2">>
TagBad == <<"-">>
\* ttl of the provisioned connection: NULL or seconds.
Ttls == {None, Some(0)}
\* provider_factories (main::setup_vault_providers)
ProviderFactories == {"aws_secrets_manager"}

\* The fields of the request structs of models.rs, absent ones at their defaults.
NoPayload == [name |-> "", value |-> None, vault_connection |-> None, version_tag |-> <<>>,
              public_id |-> "", integration_type |-> None, config |-> None, ttl |-> None]
NoReq == [method |-> "", path |-> <<>>, payload |-> NoPayload, auth |-> ""]
NoLoc == [secret |-> None, value |-> "", vc_id |-> None, ttl |-> None,
          expire_at |-> None, new_tag |-> <<>>, enc |-> None]
NoTx == [deks |-> {}, secrets |-> {}, versions |-> {}, touched |-> {}, connections |-> {},
         locks |-> {}]
NoResp == [req |-> NoReq, error |-> "", status |-> 0, value |-> "", version_tag |-> <<>>]
NoHttp == [method |-> "", path |-> <<>>, query |-> "", body |-> EmptyBody,
           x_timestamp |-> [kind |-> "missing", text |-> <<>>],
           x_signature |-> NoSig("missing")]
NoBump == [tag |-> <<>>, next |-> [panic |-> FALSE, tag |-> <<>>]]
NoGate == [now |-> GateEpoch, req |-> NoHttp, out |-> GateOut("", "", EmptyBody),
           handled |-> FALSE]

AuthKinds == {"valid", "forged"}

CreateSecretPayloads ==
    {[NoPayload EXCEPT !.name = n, !.value = v, !.vault_connection = c,
                       !.version_tag = TagV] :
        n \in Names, v \in {None, Some("A")},
        c \in {None} \cup {Some(x) : x \in PublicIds}}
\* Two payloads that pass validation per tag and value, and two that do not.
CreateSecretVersionPayloads ==
    {[NoPayload EXCEPT !.value = Some(v), !.version_tag = t] :
        v \in {"B"}, t \in {TagV1, TagV2}}
    \cup {[NoPayload EXCEPT !.value = Some(""), !.version_tag = TagV1],
          [NoPayload EXCEPT !.value = Some("A"), !.version_tag = TagBad]}

\* The requests of one route: every payload from an authentic client, one
\* payload from each of the others.
Clients(method, path, payloads) ==
    {[method |-> method, path |-> path, payload |-> b, auth |-> "valid"] : b \in payloads}
    \cup {[method |-> method, path |-> path, payload |-> CHOOSE b \in payloads : TRUE,
           auth |-> a] : a \in AuthKinds \ {"valid"}}

CreateSecretRequests == Clients("POST", <<"v1", "secrets">>, CreateSecretPayloads)
GetSecretRequests ==
    UNION {Clients("GET", <<"v1", "secrets", n>>, {NoPayload}) : n \in Names}
CreateSecretVersionRequests ==
    UNION {Clients("POST", <<"v1", "secrets", n, "versions">>, CreateSecretVersionPayloads) :
              n \in Names}
GetSecretVersionRequests ==
    UNION {Clients("GET", <<"v1", "secrets", n, "versions", t>>, {NoPayload}) :
              n \in Names, t \in {TagV, TagV1, <<"v", "-", "1">>}}

\* The time the gate reads, in milliseconds.
NowMs == now * 1000

\* The HTTP request a client of kind r.auth sends at now_ms: "valid" signs its
\* own timestamp, path and body with the configured key, "forged" signs with
\* another key, "stale" is a valid request signed 10 s ago.
HttpRequest(r, now_ms) ==
    LET body == IF r.method \in {"GET", "DELETE"} THEN EmptyBody
                ELSE [len |-> 1, data |-> <<r.payload>>]
        ts == IF r.auth = "stale" THEN now_ms - 10000 ELSE now_ms
        key == IF r.auth = "forged" THEN OtherKey ELSE AuthKey
    IN  [method |-> r.method, path |-> r.path, query |-> "", body |-> body,
         x_timestamp |-> [kind |-> "text", text |-> <<"", ts>>],
         x_signature |-> Sign(key, SignedDigest(<<"", ts>>, r.path, body))]

\* What the router does with a request before its handler: no route (404), or
\* the layers of the route, which is verify_signature when the route is gated.
Admit(r, now_ms, overflow_checks) ==
    LET rts == MatchRoute(build_router, r.method, r.path)
    IN  IF rts = {} THEN GateOut("Reject", "NotFoundError", EmptyBody)
        ELSE IF rts \subseteq build_router.gated
        THEN verify_signature(HttpRequest(r, now_ms), now_ms, overflow_checks)
        ELSE GateOut("Forward", "", HttpRequest(r, now_ms).body)

HandlerOf(r) ==
    IF MatchRoute(build_router, r.method, r.path) = {} THEN ""
    ELSE (CHOOSE rt \in MatchRoute(build_router, r.method, r.path) : TRUE).handler

\* ------------------------------------------------------------------- tables
\* SELECT * FROM secrets WHERE name = $1 (fetch_optional)
SecretByName(table, name) ==
    LET found == {s \in table : s.name = name}
    IN  IF found = {} THEN None ELSE Some(CHOOSE s \in found : TRUE)

\* SecretRepository::get_secret_by_name
get_secret_by_name(name) == SecretByName(secrets, name)

\* SecretRepository::get_secret_version_by_tag
get_secret_version_by_tag(table, secret_id, tag) ==
    LET found == {v \in table : v.secret_id = secret_id /\ v.version_tag = tag}
    IN  IF found = {} THEN None ELSE Some(CHOOSE v \in found : TRUE)

\* ConnectionRepository::get_vault_connection_by_public_id / _by_id
ConnectionBy(field, key) ==
    LET found == {c \in connections : c[field] = key}
    IN  IF found = {} THEN None ELSE Some(CHOOSE c \in found : TRUE)

\* A row or unique key a transaction holds until it ends.
SecretRow(name) == [kind |-> "secret", name |-> name, tag |-> <<>>]
VersionRow(name, tag) == [kind |-> "version", name |-> name, tag |-> tag]
HeldByOther(p, resource) == \E q \in Procs \ {p} : resource \in tx[q].locks

\* ------------------------------------------------------------------- Init
ProvisionedConnection(ttl) ==
    LET e == encrypt(1, CHOOSE k \in KekTable : TRUE, "cfg")
    IN  [dek |-> e.dek,
         row |-> [id |-> 1, public_id |-> "conn-0001",
                  integration_type |-> "aws_secrets_manager",
                  sha256sum |-> e.payload.sha256sum,
                  encrypted_config |-> e.payload.encrypted_blob,
                  dek_id |-> e.payload.dek_id, ttl |-> ttl]]

\* The state after main: the pool connected to a database that holds one
\* provisioned vault connection (and its DEK), no secret, no request in flight.
Boot ==
    /\ now = 0
    /\ \E ttl \in Ttls :
          /\ deks = {ProvisionedConnection(ttl).dek}
          /\ connections = {ProvisionedConnection(ttl).row}
    /\ nextDekId = 2
    /\ secrets = {}
    /\ versions = {}
    /\ pc = [p \in Procs |-> "idle"]
    /\ req = [p \in Procs |-> NoReq]
    /\ loc = [p \in Procs |-> NoLoc]
    /\ tx = [p \in Procs |-> NoTx]
    /\ resp = NoResp
    /\ written = {}
    /\ gate = NoGate
    /\ bump = NoBump
    /\ heap = {}

\* A build without integer overflow checks (the release profile); no step of
\* the secret operations depends on the profile at these bounds.
Init == overflowChecks = FALSE /\ Boot

\* ------------------------------------------------------------ repositories
\* The INSERT that binds no connection id.
create_secret_without_connection(name, vault_connection_id, version_tag) ==
    [name |-> name, vault_connection_id |-> None,
     current_version |-> Some(version_tag), previous_version |-> None,
     expire_at |-> None]
\* SecretRepository::create_secret: the row INSERT INTO secrets creates.
create_secret(name, vault_connection_id, version_tag) ==
    [name |-> name, vault_connection_id |-> vault_connection_id,
     current_version |-> Some(version_tag), previous_version |-> None,
     expire_at |-> None]

\* SecretRepository::create_secret_version: the row INSERT INTO secret_versions creates.
create_secret_version(secret_id, version_tag, sha256sum, encrypted_secret, dek_id) ==
    [secret_id |-> secret_id, version_tag |-> version_tag, sha256sum |-> Some(sha256sum),
     encrypted_secret |-> encrypted_secret, dek_id |-> dek_id, deleted |-> FALSE,
     expire_at |-> None]

\* The UPDATE with the new tag bound to both columns.
update_secret_versions_both(row, current_version, previous_version) ==
    [row EXCEPT !.current_version = Some(current_version),
                !.previous_version = Some(current_version)]
\* The UPDATE with the two bind parameters in the other order.
update_secret_versions_swapped(row, current_version, previous_version) ==
    [row EXCEPT !.current_version = previous_version,
                !.previous_version = Some(current_version)]
\* SecretRepository::update_secret_versions, applied to the row it matches.
update_secret_versions(row, current_version, previous_version) ==
    [row EXCEPT !.current_version = Some(current_version),
                !.previous_version = previous_version]

\* SecretRepository::update_secret_proxied, applied to the row it matches.
update_secret_proxied(row, current_version, previous_version, expire_at) ==
    [row EXCEPT !.current_version = Some(current_version),
                !.previous_version = previous_version,
                !.expire_at = Some(expire_at)]

\* The UPDATE that also sets the deleted flag.
update_secret_version_expiry_deleting(row, expire_at) ==
    [row EXCEPT !.expire_at = Some(expire_at), !.deleted = TRUE]
\* SecretRepository::update_secret_version_expiry, applied to the row it matches.
update_secret_version_expiry(row, expire_at) == [row EXCEPT !.expire_at = Some(expire_at)]

\* SecretRepository::update_secret_expiry, applied to the row it matches.
update_secret_expiry(row, expire_at) == [row EXCEPT !.expire_at = Some(expire_at)]

\* The SELECT without FOR UPDATE: no lock, no wait.
get_secret_by_name_unlocked(p, name) ==
    [row |-> SecretByName(secrets, name), locks |-> {}, waits |-> FALSE]
\* SecretRepository::get_secret_by_name_for_update by task p: the row, the row
\* lock it takes, and whether the statement has to wait for another holder.
get_secret_by_name_for_update(p, name) ==
    LET row == SecretByName(secrets, name)
    IN  [row |-> row,
         locks |-> IF IsSome(row) THEN {SecretRow(name)} ELSE {},
         waits |-> IsSome(row) /\ HeldByOther(p, SecretRow(name))]

\* The unique constraints of the schema: secrets(name), secret_versions(secret_id, version_tag).
SecretNameTaken(name) == IsSome(SecretByName(secrets, name))
VersionKeyTaken(secret_id, tag) == IsSome(get_secret_version_by_tag(versions, secret_id, tag))

\* The rows of a transaction's UPDATE secret_versions ... WHERE id, applied to a table.
ApplyTouched(table, touched) ==
    {IF \E u \in touched : u.secret_id = v.secret_id /\ u.version_tag = v.version_tag
     THEN update_secret_version_expiry(v,
            (CHOOSE u \in touched :
                u.secret_id = v.secret_id /\ u.version_tag = v.version_tag).expire_at)
     ELSE v : v \in table}

\* A commit that loses the inserted secret_versions rows.
Commit_without_versions(t) ==
    /\ deks' = deks \cup t.deks
    /\ versions' = ApplyTouched(versions, t.touched)
    /\ secrets' = {s \in secrets : \A w \in t.secrets : w.name # s.name} \cup t.secrets
    /\ connections' = {c \in connections : \A w \in t.connections : w.public_id # c.public_id}
                          \cup t.connections
    /\ UNCHANGED nextDekId
\* A commit that loses the inserted data_encryption_keys rows.
Commit_without_deks(t) ==
    /\ deks' = deks
    /\ versions' = ApplyTouched(versions, t.touched) \cup t.versions
    /\ secrets' = {s \in secrets : \A w \in t.secrets : w.name # s.name} \cup t.secrets
    /\ connections' = {c \in connections : \A w \in t.connections : w.public_id # c.public_id}
                          \cup t.connections
    /\ UNCHANGED nextDekId
\* tx.commit(): the writes of the transaction become visible together.
Commit(t) ==
    /\ deks' = deks \cup t.deks
    /\ versions' = ApplyTouched(versions, t.touched) \cup t.versions
    /\ secrets' = {s \in secrets : \A w \in t.secrets : w.name # s.name} \cup t.secrets
    /\ connections' = {c \in connections : \A w \in t.connections : w.public_id # c.public_id}
                          \cup t.connections
    /\ UNCHANGED nextDekId

\* ------------------------------------------------------------------ services
Response(error, value, tag) ==
    [error |-> error, status |-> StatusOf(error), value |-> value, version_tag |-> tag]

\* SecretService::decrypt_secret_value and the response of a read of `version`.
ReadVersion(version, tag) ==
    LET d == decrypt(deks, version.dek_id, version.encrypted_secret)
    IN  IF d.error # "Ok" THEN Response(d.error, "", <<>>)
        ELSE Response("Ok", d.value, tag)

\* The read that serves the current version whatever the tag asked for.
get_secret_version_of_current(name, tag) ==
    LET secret == get_secret_by_name(name)
    IN  IF ~IsSome(secret) THEN Response("NotFoundError", "", <<>>)
        ELSE LET version == get_secret_version_by_tag(versions, Unwrap(secret).name,
                                Unwrap(Unwrap(secret).current_version))
             IN  IF ~IsSome(version) THEN Response("NotFoundError", "", <<>>)
                 ELSE ReadVersion(Unwrap(version), tag)
\* SecretService::get_secret_version
get_secret_version(name, tag) ==
    LET secret == get_secret_by_name(name)
    IN  IF ~IsSome(secret) THEN Response("NotFoundError", "", <<>>)
        ELSE LET version == get_secret_version_by_tag(versions, Unwrap(secret).name, tag)
             IN  IF ~IsSome(version) THEN Response("NotFoundError", "", <<>>)
                 ELSE ReadVersion(Unwrap(version), tag)

\* The check that always refreshes.
should_refresh_always(secret, t) == TRUE
\* The check that takes a null expire_at for "not expired".
should_refresh_unless_null(secret, t) == IsSome(secret.expire_at) /\ t > Unwrap(secret.expire_at)
\* The comparison with >= in place of >.
should_refresh_at_expiry(secret, t) ==
    ~IsSome(secret.expire_at) \/ t >= Unwrap(secret.expire_at)
\* get_secret_current_version, line 81: should_refresh.
should_refresh(secret, t) == ~IsSome(secret.expire_at) \/ t > Unwrap(secret.expire_at)

\* The check that never finds a connection id.
is_proxied_never(secret) == FALSE
\* secret.vault_connection_id.is_some(): the secret is proxied.
is_proxied(secret) == IsSome(secret.vault_connection_id)

\* get_secret_current_version, lines 88-107: the stored current version.
ReadCurrent(secret) ==
    IF ~IsSome(secret.current_version) THEN Response("NotFoundError", "", <<>>)
    ELSE LET tag == Unwrap(secret.current_version)
             version == get_secret_version_by_tag(versions, secret.name, tag)
         IN  IF ~IsSome(version) THEN Response("NotFoundError", "", <<>>)
             ELSE ReadVersion(Unwrap(version), tag)

\* ConnectionService::get_vault_connection / get_vault_connection_config_by_id
\* and the provider_factories lookup: the error, or the connection.
ResolveConnection(connection) ==
    IF ~IsSome(connection) THEN [error |-> "NotFoundError", connection |-> None]
    ELSE LET c == Unwrap(connection)
             d == decrypt(deks, c.dek_id, c.encrypted_config)
         IN  IF d.error # "Ok" THEN [error |-> d.error, connection |-> None]
             ELSE IF c.integration_type \notin ProviderFactories
             THEN [error |-> "InvalidInput", connection |-> None]
             ELSE [error |-> "Ok", connection |-> connection]

\* JsonPayload::from_request: value.validate() of each request struct.
ValidCreateSecretRequest(payload) ==
    /\ payload.name \in Names
    /\ IsSome(payload.value) => Unwrap(payload.value) # ""
    /\ ValidVersionTag(payload.version_tag)
ValidCreateSecretVersionRequest(payload) ==
    /\ IsSome(payload.value) /\ Unwrap(payload.value) # ""
    /\ ValidVersionTag(payload.version_tag)

\* The secret-name check of the handlers (get_secret_name_regex).
get_secret_name_regex(name) == name \in Names

\* ------------------------------------------------------------------ actions
Idle(p) == pc[p] = "idle"

\* The task of p ends with a response; an open transaction is dropped (rolled back).
Finish(p, r, response) ==
    /\ pc' = [pc EXCEPT ![p] = "idle"]
    /\ req' = [req EXCEPT ![p] = NoReq]
    /\ loc' = [loc EXCEPT ![p] = NoLoc]
    /\ tx' = [tx EXCEPT ![p] = NoTx]
    /\ resp' = [req |-> r, error |-> response.error, status |-> response.status,
                value |-> response.value, version_tag |-> response.version_tag]

\* The task of p is suspended at `label` with locals l and transaction t.
Suspend(p, r, label, l, t) ==
    /\ pc' = [pc EXCEPT ![p] = label]
    /\ req' = [req EXCEPT ![p] = r]
    /\ loc' = [loc EXCEPT ![p] = l]
    /\ tx' = [tx EXCEPT ![p] = t]
    /\ resp' = NoResp

\* crypto::encrypt of loc.value inside the transaction of p serving r, which goes on at
\* `label`: a KEK, a data key from the KMS, the DEK row (uncommitted), the
\* payload. It shares nothing with other tasks but the id sequence.
Encrypt(p, r, l, t, label) ==
    /\ nextDekId <= MaxDeks
    /\ \E kek \in KekTable :
          LET e == encrypt(nextDekId, kek, l.value)
          IN  Suspend(p, r, label, [l EXCEPT !.enc = Some(e.payload)],
                      [t EXCEPT !.deks = @ \cup {e.dek}])
    /\ nextDekId' = nextDekId + 1

\* The response of the request that finished last is on its way to the client.
\* Handing it over commutes with every other step, so it is taken at once.
Delivered == resp = NoResp
Deliver ==
    /\ ~Delivered
    /\ resp' = NoResp
    /\ UNCHANGED <<now, overflowChecks, db, pc, req, loc, tx, written, gate, bump, heap>>

Tick ==
    /\ Delivered
    /\ now < MaxTime
    /\ now' = now + 1
    /\ resp' = NoResp
    /\ UNCHANGED <<overflowChecks, db, pc, req, loc, tx, written, gate, bump, heap>>

\* A request the router or the gate turns away: no handler runs.
Rejected(p, r) ==
    /\ Delivered
    /\ Idle(p)
    /\ Admit(r, NowMs, overflowChecks).result # "Forward"
    /\ Finish(p, r, Response(IF Admit(r, NowMs, overflowChecks).result = "Panic"
                             THEN "Panic" ELSE Admit(r, NowMs, overflowChecks).error,
                             "", <<>>))
    /\ UNCHANGED <<now, overflowChecks, db, written, gate, bump, heap>>

\* The presence checks without the first one.
ValueSource_lenient(payload) ==
    IF ~IsSome(payload.vault_connection) /\ ~IsSome(payload.value) THEN "neither"
    ELSE "one"
\* SecretHandler::create_secret, lines 26-36: the two presence checks on
\* `vault_connection` and `value`.
ValueSource(payload) ==
    IF IsSome(payload.vault_connection) /\ IsSome(payload.value) THEN "both"
    ELSE IF ~IsSome(payload.vault_connection) /\ ~IsSome(payload.value) THEN "neither"
    ELSE "one"

\* SecretHandler::create_secret up to the first await of
\* SecretService::create_secret_with_version (state.db.begin()).
CreateSecret(p, r) ==
    /\ Delivered
    /\ Idle(p)
    /\ Admit(r, NowMs, overflowChecks).result = "Forward"
    /\ HandlerOf(r) = "SecretHandler::create_secret"
    /\ IF ~ValidCreateSecretRequest(r.payload)
       THEN Finish(p, r, Response("ValidationError", "", <<>>))
       ELSE IF ValueSource(r.payload) # "one"
       THEN Finish(p, r, Response("InvalidInput", "", <<>>))
       ELSE Suspend(p, r, "cs_value", NoLoc, NoTx)
    /\ UNCHANGED <<now, overflowChecks, db, written, gate, bump, heap>>

\* create_secret_with_version, lines 32-42: the value, from the provider
\* (get_secret_value_from_provider: the connection by public id, the provider,
\* provider.get_secret) or from the request, and crypto::encrypt.
CreateSecretValue(p) ==
    /\ Delivered
    /\ pc[p] = "cs_value"
    /\ IF IsSome(req[p].payload.vault_connection)
       THEN LET c == ResolveConnection(
                        ConnectionBy("public_id", Unwrap(req[p].payload.vault_connection)))
            IN  IF c.error # "Ok"
                THEN Finish(p, req[p], Response(c.error, "", <<>>)) /\ UNCHANGED nextDekId
                ELSE \E upstream \in Values :
                        Encrypt(p, req[p], [loc[p] EXCEPT !.value = upstream,
                                                  !.vc_id = Some(Unwrap(c.connection).id)],
                                tx[p], "cs_insert")
       ELSE Encrypt(p, req[p], [loc[p] EXCEPT !.value = Unwrap(req[p].payload.value)],
                    tx[p], "cs_insert")
    /\ UNCHANGED <<now, overflowChecks, deks, secrets, versions, connections, written, gate, bump, heap>>

\* create_secret_with_version, lines 44-60: INSERT INTO secrets, which waits
\* for an uncommitted insert of the same name, then INSERT INTO secret_versions.
CreateSecretInsert(p) ==
    /\ Delivered
    /\ pc[p] = "cs_insert"
    /\ ~HeldByOther(p, SecretRow(req[p].payload.name))
    /\ LET name == req[p].payload.name
           tag == req[p].payload.version_tag
           enc == Unwrap(loc[p].enc)
       IN  IF SecretNameTaken(name)
           THEN Finish(p, req[p], Response(FromSqlxError("unique_violation"), "", <<>>))
           ELSE Suspend(p, req[p], "cs_commit", loc[p],
                    [tx[p] EXCEPT
                        !.secrets = {create_secret(name, loc[p].vc_id, tag)},
                        !.versions = {create_secret_version(name, tag, enc.sha256sum,
                                          enc.encrypted_blob, enc.dek_id)},
                        !.locks = @ \cup {SecretRow(name), VersionRow(name, tag)}])
    /\ UNCHANGED <<now, overflowChecks, db, written, gate, bump, heap>>

\* create_secret_with_version, lines 62-67: commit and respond.
CreateSecretCommit(p) ==
    /\ Delivered
    /\ pc[p] = "cs_commit"
    /\ Commit(tx[p])
    /\ written' = written \cup {[name |-> req[p].payload.name,
                                 tag |-> req[p].payload.version_tag,
                                 value |-> loc[p].value]}
    /\ Finish(p, req[p], Response("Created", "", req[p].payload.version_tag))
    /\ UNCHANGED <<now, overflowChecks, gate, bump, heap>>

\* SecretHandler::get_secret and SecretService::get_secret_current_version up
\* to the response or the entry into refresh_proxied_secret. The reads of a
\* GET see committed rows that no operation deletes or rewrites (expiries
\* apart, which no response carries), so its SELECTs are taken in one step.
GetSecret(p, r) ==
    /\ Delivered
    /\ Idle(p)
    /\ Admit(r, NowMs, overflowChecks).result = "Forward"
    /\ HandlerOf(r) = "SecretHandler::get_secret"
    /\ LET secret == get_secret_by_name(r.path[3])
       IN  IF ~get_secret_name_regex(r.path[3])
           THEN Finish(p, r, Response("InvalidInput", "", <<>>))
           ELSE IF ~IsSome(secret)
           THEN Finish(p, r, Response("NotFoundError", "", <<>>))
           ELSE IF is_proxied(Unwrap(secret)) /\ should_refresh(Unwrap(secret), now)
           THEN Suspend(p, r, "rf_fetch",
                        [NoLoc EXCEPT !.secret = secret,
                                      !.vc_id = Unwrap(secret).vault_connection_id],
                        NoTx)
           ELSE Finish(p, r, ReadCurrent(Unwrap(secret)))
    /\ UNCHANGED <<now, overflowChecks, db, written, gate, bump, heap>>

\* The expiry that ignores the connection's ttl.
ExpireAt_ignoring_ttl(t, ttl) == t + DEFAULT_TTL_SECONDS
\* update_secret_from_provider, line 238.
ExpireAt(t, ttl) == t + (IF IsSome(ttl) THEN Unwrap(ttl) ELSE DEFAULT_TTL_SECONDS)

\* The comparison that never finds the hashes equal.
CompareWithCurrent_never_same(secret, new_value) ==
    IF ~IsSome(secret.current_version) THEN "changed"
    ELSE IF ~IsSome(get_secret_version_by_tag(versions, secret.name,
                                              Unwrap(secret.current_version)))
    THEN "missing" ELSE "changed"
\* update_secret_from_provider, lines 241-258: whether the content is that of
\* the version the Secret read by the caller names as current.
\* "same", "changed" or "missing" (the version row is not there).
CompareWithCurrent(secret, new_value) ==
    IF ~IsSome(secret.current_version) THEN "changed"
    ELSE LET cv == get_secret_version_by_tag(versions, secret.name,
                                             Unwrap(secret.current_version))
         IN  IF ~IsSome(cv) THEN "missing"
             ELSE IF Some(sha256_hash(new_value)) = Unwrap(cv).sha256sum THEN "same"
             ELSE "changed"

\* refresh_proxied_secret, lines 191-211, and update_secret_from_provider up to
\* its first write: the connection by id, the provider, provider.get_secret,
\* begin, expire_at, the comparison with the version the Secret passed in
\* names (a row whose hash never changes), the next tag, crypto::encrypt.
RefreshFetch(p) ==
    /\ Delivered
    /\ pc[p] = "rf_fetch"
    /\ LET c == ResolveConnection(ConnectionBy("id", Unwrap(loc[p].vc_id)))
           secret == Unwrap(loc[p].secret)
           next == get_next_version_tag(
                       IF IsSome(secret.current_version)
                       THEN Unwrap(secret.current_version) ELSE <<"v">>,
                       overflowChecks)
       IN  IF c.error # "Ok"
           THEN Finish(p, req[p], Response(c.error, "", <<>>)) /\ UNCHANGED nextDekId
           ELSE \E upstream \in Values :
                  LET expire_at == ExpireAt(now, Unwrap(c.connection).ttl)
                      cmp == CompareWithCurrent(secret, upstream)
                      l == [loc[p] EXCEPT !.value = upstream,
                                          !.ttl = Unwrap(c.connection).ttl,
                                          !.expire_at = Some(expire_at)]
                  IN  IF cmp = "missing"
                      THEN Finish(p, req[p], Response("NotFoundError", "", <<>>))
                           /\ UNCHANGED nextDekId
                      ELSE IF cmp = "same"
                      THEN Suspend(p, req[p], "rf_touch_version",
                                   [l EXCEPT !.new_tag = Unwrap(secret.current_version)],
                                   tx[p])
                           /\ UNCHANGED nextDekId
                      ELSE IF next.panic
                      THEN Finish(p, req[p], Response("Panic", "", <<>>))
                           /\ UNCHANGED nextDekId
                      ELSE Encrypt(p, req[p], [l EXCEPT !.new_tag = next.tag], tx[p], "rf_insert")
    /\ UNCHANGED <<now, overflowChecks, deks, secrets, versions, connections, written, gate, bump, heap>>

\* update_secret_from_provider, line 252: UPDATE secret_versions SET expire_at,
\* which waits for another transaction's uncommitted update of the row.
RefreshTouchVersion(p) ==
    /\ Delivered
    /\ pc[p] = "rf_touch_version"
    /\ LET name == Unwrap(loc[p].secret).name
           tag == loc[p].new_tag
       IN  /\ ~HeldByOther(p, VersionRow(name, tag))
           /\ Suspend(p, req[p], "rf_touch_secret", loc[p],
                      [tx[p] EXCEPT
                          !.touched = @ \cup {[secret_id |-> name, version_tag |-> tag,
                                               expire_at |-> Unwrap(loc[p].expire_at)]},
                          !.locks = @ \cup {VersionRow(name, tag)}])
    /\ UNCHANGED <<now, overflowChecks, db, written, gate, bump, heap>>

\* update_secret_from_provider, line 254: UPDATE secrets SET expire_at.
RefreshTouchSecret(p) ==
    /\ Delivered
    /\ pc[p] = "rf_touch_secret"
    /\ LET name == Unwrap(loc[p].secret).name
       IN  /\ ~HeldByOther(p, SecretRow(name))
           /\ Suspend(p, req[p], "rf_commit", loc[p],
                      [tx[p] EXCEPT
                          !.secrets = {update_secret_expiry(s, Unwrap(loc[p].expire_at)) :
                                          s \in {x \in secrets : x.name = name}},
                          !.locks = @ \cup {SecretRow(name)}])
    /\ UNCHANGED <<now, overflowChecks, db, written, gate, bump, heap>>

\* update_secret_from_provider, lines 269-277: INSERT INTO secret_versions,
\* which waits for an uncommitted insert of the same (secret_id, version_tag).
RefreshInsert(p) ==
    /\ Delivered
    /\ pc[p] = "rf_insert"
    /\ LET name == Unwrap(loc[p].secret).name
           tag == loc[p].new_tag
           enc == Unwrap(loc[p].enc)
       IN  /\ ~HeldByOther(p, VersionRow(name, tag))
           /\ IF VersionKeyTaken(name, tag)
              THEN Finish(p, req[p], Response(FromSqlxError("unique_violation"), "", <<>>))
              ELSE Suspend(p, req[p], "rf_update", loc[p],
                      [tx[p] EXCEPT
                          !.versions = {create_secret_version(name, tag, enc.sha256sum,
                                            enc.encrypted_blob, enc.dek_id)},
                          !.locks = @ \cup {VersionRow(name, tag)}])
    /\ UNCHANGED <<now, overflowChecks, db, written, gate, bump, heap>>

\* update_secret_from_provider, lines 279-286: UPDATE secrets SET
\* current_version, previous_version, expire_at.
RefreshUpdate(p) ==
    /\ Delivered
    /\ pc[p] = "rf_update"
    /\ LET secret == Unwrap(loc[p].secret)
       IN  /\ ~HeldByOther(p, SecretRow(secret.name))
           /\ Suspend(p, req[p], "rf_commit", loc[p],
                      [tx[p] EXCEPT
                          !.secrets = {update_secret_proxied(s, loc[p].new_tag,
                                           secret.current_version,
                                           Unwrap(loc[p].expire_at)) :
                                          s \in {x \in secrets : x.name = secret.name}},
                          !.locks = @ \cup {SecretRow(secret.name)}])
    /\ UNCHANGED <<now, overflowChecks, db, written, gate, bump, heap>>

\* refresh_proxied_secret, lines 222-228: commit and respond with the upstream
\* value and the tag update_secret_from_provider returned.
RefreshCommit(p) ==
    /\ Delivered
    /\ pc[p] = "rf_commit"
    /\ Commit(tx[p])
    /\ written' = written \cup {[name |-> v.secret_id, tag |-> v.version_tag,
                                 value |-> loc[p].value] : v \in tx[p].versions}
    /\ Finish(p, req[p], Response("Ok", loc[p].value, loc[p].new_tag))
    /\ UNCHANGED <<now, overflowChecks, gate, bump, heap>>

\* SecretHandler::create_secret_version (the extractor JsonPayload validates
\* the body before the handler runs) up to state.db.begin().
CreateSecretVersion(p, r) ==
    /\ Delivered
    /\ Idle(p)
    /\ Admit(r, NowMs, overflowChecks).result = "Forward"
    /\ HandlerOf(r) = "SecretHandler::create_secret_version"
    /\ IF ~ValidCreateSecretVersionRequest(r.payload)
       THEN Finish(p, r, Response("ValidationError", "", <<>>))
       ELSE IF ~get_secret_name_regex(r.path[3])
       THEN Finish(p, r, Response("InvalidInput", "", <<>>))
       ELSE Suspend(p, r, "csv_lock", [NoLoc EXCEPT !.value = Unwrap(r.payload.value)], NoTx)
    /\ UNCHANGED <<now, overflowChecks, db, written, gate, bump, heap>>

\* SecretService::create_secret_version, lines 118-129: SELECT ... FOR UPDATE,
\* the proxied check and crypto::encrypt.
CreateSecretVersionLock(p) ==
    /\ Delivered
    /\ pc[p] = "csv_lock"
    /\ LET got == get_secret_by_name_for_update(p, req[p].path[3])
       IN  /\ ~got.waits
           /\ IF ~IsSome(got.row)
              THEN Finish(p, req[p], Response("NotFoundError", "", <<>>))
                   /\ UNCHANGED nextDekId
              ELSE IF is_proxied(Unwrap(got.row))
              THEN Finish(p, req[p], Response("MethodNotAllowed", "", <<>>))
                   /\ UNCHANGED nextDekId
              ELSE Encrypt(p, req[p], [loc[p] EXCEPT !.secret = got.row],
                           [tx[p] EXCEPT !.locks = @ \cup got.locks], "csv_insert")
    /\ UNCHANGED <<now, overflowChecks, deks, secrets, versions, connections, written, gate, bump, heap>>

\* SecretService::create_secret_version, lines 132-140: INSERT INTO secret_versions.
CreateSecretVersionInsert(p) ==
    /\ Delivered
    /\ pc[p] = "csv_insert"
    /\ LET name == Unwrap(loc[p].secret).name
           tag == req[p].payload.version_tag
           enc == Unwrap(loc[p].enc)
       IN  /\ ~HeldByOther(p, VersionRow(name, tag))
           /\ IF VersionKeyTaken(name, tag)
              THEN Finish(p, req[p], Response(FromSqlxError("unique_violation"), "", <<>>))
              ELSE Suspend(p, req[p], "csv_update", loc[p],
                      [tx[p] EXCEPT
                          !.versions = {create_secret_version(name, tag, enc.sha256sum,
                                            enc.encrypted_blob, enc.dek_id)},
                          !.locks = @ \cup {VersionRow(name, tag)}])
    /\ UNCHANGED <<now, overflowChecks, db, written, gate, bump, heap>>

\* SecretService::create_secret_version, lines 143-150: previous_version is the
\* current_version of the row read under the lock; UPDATE secrets.
CreateSecretVersionUpdate(p) ==
    /\ Delivered
    /\ pc[p] = "csv_update"
    /\ LET secret == Unwrap(loc[p].secret)
       IN  /\ ~HeldByOther(p, SecretRow(secret.name))
           /\ Suspend(p, req[p], "csv_commit", loc[p],
                      [tx[p] EXCEPT
                          !.secrets = {update_secret_versions(s, req[p].payload.version_tag,
                                           secret.current_version) :
                                          s \in {x \in secrets : x.name = secret.name}},
                          !.locks = @ \cup {SecretRow(secret.name)}])
    /\ UNCHANGED <<now, overflowChecks, db, written, gate, bump, heap>>

\* SecretService::create_secret_version, lines 152-157: commit and respond.
CreateSecretVersionCommit(p) ==
    /\ Delivered
    /\ pc[p] = "csv_commit"
    /\ Commit(tx[p])
    /\ written' = written \cup {[name |-> Unwrap(loc[p].secret).name,
                                 tag |-> req[p].payload.version_tag,
                                 value |-> loc[p].value]}
    /\ Finish(p, req[p], Response("Created", "", req[p].payload.version_tag))
    /\ UNCHANGED <<now, overflowChecks, gate, bump, heap>>

\* SecretHandler::get_secret_version and SecretService::get_secret_version.
GetSecretVersion(p, r) ==
    /\ Delivered
    /\ Idle(p)
    /\ Admit(r, NowMs, overflowChecks).result = "Forward"
    /\ HandlerOf(r) = "SecretHandler::get_secret_version"
    /\ IF ~get_secret_name_regex(r.path[3]) \/ ~get_version_tag_regex(r.path[5])
       THEN Finish(p, r, Response("InvalidInput", "", <<>>))
       ELSE Finish(p, r, get_secret_version(r.path[3], r.path[5]))
    /\ UNCHANGED <<now, overflowChecks, db, written, gate, bump, heap>>

Requests ==
    CreateSecretRequests \cup GetSecretRequests \cup CreateSecretVersionRequests
        \cup GetSecretVersionRequests

Next ==
    \/ Deliver
    \/ Tick
    \/ \E p \in Procs, r \in Requests : Rejected(p, r)
    \/ \E p \in Procs, r \in CreateSecretRequests : CreateSecret(p, r)
    \/ \E p \in Procs : CreateSecretValue(p)
    \/ \E p \in Procs : CreateSecretInsert(p)
    \/ \E p \in Procs : CreateSecretCommit(p)
    \/ \E p \in Procs, r \in GetSecretRequests : GetSecret(p, r)
    \/ \E p \in Procs : RefreshFetch(p)
    \/ \E p \in Procs : RefreshTouchVersion(p)
    \/ \E p \in Procs : RefreshTouchSecret(p)
    \/ \E p \in Procs : RefreshInsert(p)
    \/ \E p \in Procs : RefreshUpdate(p)
    \/ \E p \in Procs : RefreshCommit(p)
    \/ \E p \in Procs, r \in CreateSecretVersionRequests : CreateSecretVersion(p, r)
    \/ \E p \in Procs : CreateSecretVersionLock(p)
    \/ \E p \in Procs : CreateSecretVersionInsert(p)
    \/ \E p \in Procs : CreateSecretVersionUpdate(p)
    \/ \E p \in Procs : CreateSecretVersionCommit(p)
    \/ \E p \in Procs, r \in GetSecretVersionRequests : GetSecretVersion(p, r)

Spec == Init /\ [][Next]_vars

\* ------------------------------------------------- vault connections
\* The vault_connections row of a public id, as a lock or unique key.
ConnRow(public_id) == [kind |-> "connection", name |-> public_id, tag |-> <<>>]

\* validators::get_public_id_regex
get_public_id_regex(public_id) == public_id \in PublicIds

\* config.len() of the configs a client sends.
ConfigLen(config) == IF config = "oversize" THEN MAX_CONFIG_LEN + 1 ELSE 3
\* validators::validate_vault_config
validate_vault_config(config) == ConfigLen(config) <= MAX_CONFIG_LEN

\* JsonPayload::from_request: value.validate() of CreateVaultConnectionRequest.
ValidCreateVaultConnectionRequest(payload) ==
    /\ get_public_id_regex(payload.public_id)
    /\ IsSome(payload.integration_type) /\ Unwrap(payload.integration_type) # ""
    /\ IsSome(payload.config) /\ validate_vault_config(Unwrap(payload.config))
\* JsonPayload::from_request: value.validate() of UpdateVaultConnectionRequest.
ValidUpdateVaultConnectionRequest(payload) ==
    /\ IsSome(payload.config) => validate_vault_config(Unwrap(payload.config))
    /\ IsSome(payload.integration_type) => Unwrap(payload.integration_type) # ""

\* The validation without the lookup of the factory.
validate_vault_connection_config_any_type(integration_type, provider_accepts) ==
    IF ~provider_accepts THEN "InvalidInput" ELSE "Ok"
\* ConnectionService::validate_vault_connection_config: the factory of the
\* integration type, then the provider's own verdict on the config.
validate_vault_connection_config(integration_type, provider_accepts) ==
    IF integration_type \notin ProviderFactories THEN "InvalidInput"
    ELSE IF ~provider_accepts THEN "InvalidInput"
    ELSE "Ok"

\* ConnectionRepository::create_vault_connection: the row INSERT INTO
\* vault_connections creates. The serial id is one per inserting transaction
\* and never reused, as the id of the DEK of that transaction is.
create_vault_connection(payload, sha256sum, encrypted_config, dek_id) ==
    [id |-> dek_id, public_id |-> payload.public_id,
     integration_type |-> Unwrap(payload.integration_type),
     sha256sum |-> sha256sum, encrypted_config |-> encrypted_config,
     dek_id |-> dek_id, ttl |-> payload.ttl]

\* The UPDATE without the encrypted_config column.
update_vault_connection_keeps_config(row, encrypted_config, sha256sum, dek_id, ttl, integration_type) ==
    [row EXCEPT
        !.sha256sum = IF IsSome(sha256sum) THEN Unwrap(sha256sum) ELSE @,
        !.dek_id = IF IsSome(dek_id) THEN Unwrap(dek_id) ELSE @,
        !.ttl = ttl,
        !.integration_type = IF IsSome(integration_type) THEN Unwrap(integration_type) ELSE @]
\* The UPDATE with ttl coalesced like the other columns.
update_vault_connection_coalesce_ttl(row, encrypted_config, sha256sum, dek_id, ttl, integration_type) ==
    [row EXCEPT
        !.encrypted_config = IF IsSome(encrypted_config) THEN Unwrap(encrypted_config) ELSE @,
        !.sha256sum = IF IsSome(sha256sum) THEN Unwrap(sha256sum) ELSE @,
        !.dek_id = IF IsSome(dek_id) THEN Unwrap(dek_id) ELSE @,
        !.ttl = IF IsSome(ttl) THEN ttl ELSE @,
        !.integration_type = IF IsSome(integration_type) THEN Unwrap(integration_type) ELSE @]
\* ConnectionRepository::update_vault_connection, applied to the row it matches.
update_vault_connection(row, encrypted_config, sha256sum, dek_id, ttl, integration_type) ==
    [row EXCEPT
        !.encrypted_config = IF IsSome(encrypted_config) THEN Unwrap(encrypted_config) ELSE @,
        !.sha256sum = IF IsSome(sha256sum) THEN Unwrap(sha256sum) ELSE @,
        !.dek_id = IF IsSome(dek_id) THEN Unwrap(dek_id) ELSE @,
        !.ttl = ttl,
        !.integration_type = IF IsSome(integration_type) THEN Unwrap(integration_type) ELSE @]

\* The unique constraint of the schema: vault_connections(public_id).
ConnectionKeyTaken(public_id) == IsSome(ConnectionBy("public_id", public_id))

\* What the schema does with DELETE FROM vault_connections of a row that a
\* secrets row references: refuse it, or have no constraint at all.
ForeignKeyOutcomes == {"restrict", "none"}

CreateVaultConnectionPayloads ==
    {[NoPayload EXCEPT !.public_id = "conn-0001", !.integration_type = Some(it),
                       !.config = Some("cf2"), !.ttl = Some(0)] : it \in {"aws_secrets_manager", "unknown"}}
    \cup {[NoPayload EXCEPT !.public_id = "conn-0001",
                            !.integration_type = Some("aws_secrets_manager"),
                            !.config = Some("oversize")],
          [NoPayload EXCEPT !.public_id = "id",
                            !.integration_type = Some("aws_secrets_manager"),
                            !.config = Some("cf2")]}
\* ttl alone, a rotated config with its integration type (and the ttl, which
\* the UPDATE sets verbatim), a config alone.
UpdateVaultConnectionPayloads ==
    {[NoPayload EXCEPT !.ttl = Some(0)],
     [NoPayload EXCEPT !.integration_type = Some("aws_secrets_manager"),
                       !.config = Some("cf2"), !.ttl = Some(0)],
     [NoPayload EXCEPT !.config = Some("cf2")]}

CreateVaultConnectionRequests ==
    Clients("POST", <<"v1", "vault-connections">>, CreateVaultConnectionPayloads)
GetVaultConnectionRequests ==
    UNION {Clients("GET", <<"v1", "vault-connections", id>>, {NoPayload}) :
              id \in PublicIds \cup {"id"}}
DeleteVaultConnectionRequests ==
    UNION {Clients("DELETE", <<"v1", "vault-connections", id>>, {NoPayload}) :
              id \in PublicIds \cup {"id"}}
\* Calls of ConnectionHandler::update_vault_connection, which configure_routes
\* registers on no route: its arguments as the extractors would hand them over.
UpdateVaultConnectionCalls ==
    {[method |-> "PATCH", path |-> <<"v1", "vault-connections", id>>, payload |-> b,
      auth |-> "valid"] : id \in PublicIds \cup {"id"}, b \in UpdateVaultConnectionPayloads}

\* ConnectionHandler::create_vault_connection and
\* ConnectionService::create_vault_connection, lines 48-55: the payload
\* validation, the provider's dry run, begin and crypto::encrypt.
CreateVaultConnection(p, r) ==
    /\ Delivered
    /\ Idle(p)
    /\ Admit(r, NowMs, overflowChecks).result = "Forward"
    /\ HandlerOf(r) = "ConnectionHandler::create_vault_connection"
    /\ IF ~ValidCreateVaultConnectionRequest(r.payload)
       THEN Finish(p, r, Response("ValidationError", "", <<>>)) /\ UNCHANGED nextDekId
       ELSE \E provider_accepts \in BOOLEAN :
              LET v == validate_vault_connection_config(
                           Unwrap(r.payload.integration_type), provider_accepts)
              IN  IF v # "Ok"
                  THEN Finish(p, r, Response(v, "", <<>>)) /\ UNCHANGED nextDekId
                  ELSE Encrypt(p, r, [NoLoc EXCEPT !.value = Unwrap(r.payload.config)],
                               NoTx, "cc_insert")
    /\ UNCHANGED <<now, overflowChecks, deks, secrets, versions, connections, written, gate, bump, heap>>

\* ConnectionService::create_vault_connection, lines 58-65: INSERT INTO
\* vault_connections, which waits for an uncommitted insert of the same public id.
CreateVaultConnectionInsert(p) ==
    /\ Delivered
    /\ pc[p] = "cc_insert"
    /\ ~HeldByOther(p, ConnRow(req[p].payload.public_id))
    /\ LET enc == Unwrap(loc[p].enc)
       IN  IF ConnectionKeyTaken(req[p].payload.public_id)
           THEN Finish(p, req[p], Response(FromSqlxError("unique_violation"), "", <<>>))
           ELSE Suspend(p, req[p], "cc_commit", loc[p],
                    [tx[p] EXCEPT
                        !.connections = {create_vault_connection(req[p].payload,
                                            enc.sha256sum, enc.encrypted_blob, enc.dek_id)},
                        !.locks = @ \cup {ConnRow(req[p].payload.public_id)}])
    /\ UNCHANGED <<now, overflowChecks, db, written, gate, bump, heap>>

\* ConnectionService::create_vault_connection, lines 67-79: commit and respond.
CreateVaultConnectionCommit(p) ==
    /\ Delivered
    /\ pc[p] = "cc_commit"
    /\ Commit(tx[p])
    /\ Finish(p, req[p], Response("Created", "", <<>>))
    /\ UNCHANGED <<now, overflowChecks, written, gate, bump, heap>>

\* A config or an integration type on its own counted as no change of config.
ConfigChange_lenient(payload) ==
    IF IsSome(payload.config) /\ IsSome(payload.integration_type) THEN "rotate" ELSE "none"
\* ConnectionService::update_vault_connection, lines 94-105: no change of
\* config ("none"), a config with its integration type ("rotate"), or one of
\* the two without the other ("incomplete").
ConfigChange(payload) ==
    IF ~IsSome(payload.config) /\ ~IsSome(payload.integration_type) THEN "none"
    ELSE IF ~IsSome(payload.integration_type) \/ ~IsSome(payload.config) THEN "incomplete"
    ELSE "rotate"

\* ConnectionHandler::update_vault_connection and
\* ConnectionService::update_vault_connection, lines 88-115: begin; a config
\* and an integration type come together or not at all; the provider's dry
\* run; crypto::encrypt.
UpdateVaultConnection(p, r) ==
    /\ Delivered
    /\ Idle(p)
    /\ IF ~ValidUpdateVaultConnectionRequest(r.payload)
       THEN Finish(p, r, Response("ValidationError", "", <<>>)) /\ UNCHANGED nextDekId
       ELSE IF ~get_public_id_regex(r.path[3])
       THEN Finish(p, r, Response("InvalidInput", "", <<>>)) /\ UNCHANGED nextDekId
       ELSE IF ConfigChange(r.payload) = "none"
       THEN Suspend(p, r, "cu_update", NoLoc, NoTx) /\ UNCHANGED nextDekId
       ELSE IF ConfigChange(r.payload) = "incomplete"
       THEN Finish(p, r, Response("InvalidInput", "", <<>>)) /\ UNCHANGED nextDekId
       ELSE \E provider_accepts \in BOOLEAN :
              LET v == validate_vault_connection_config(
                           Unwrap(r.payload.integration_type), provider_accepts)
              IN  IF v # "Ok"
                  THEN Finish(p, r, Response(v, "", <<>>)) /\ UNCHANGED nextDekId
                  ELSE Encrypt(p, r, [NoLoc EXCEPT !.value = Unwrap(r.payload.config)],
                               NoTx, "cu_update")
    /\ UNCHANGED <<now, overflowChecks, deks, secrets, versions, connections, written, gate, bump, heap>>

\* ConnectionService::update_vault_connection, lines 117-126: the coalescing
\* UPDATE ... RETURNING with fetch_one, which waits for another transaction's
\* uncommitted write of the row and fails with RowNotFound when none matches.
UpdateVaultConnectionUpdate(p) ==
    /\ Delivered
    /\ pc[p] = "cu_update"
    /\ LET public_id == req[p].path[3]
           row == ConnectionBy("public_id", public_id)
           enc == loc[p].enc
       IN  /\ IsSome(row) => ~HeldByOther(p, ConnRow(public_id))
           /\ IF ~IsSome(row)
              THEN Finish(p, req[p], Response(FromSqlxError("row_not_found"), "", <<>>))
              ELSE Suspend(p, req[p], "cu_commit", loc[p],
                      [tx[p] EXCEPT
                          !.connections = {update_vault_connection(Unwrap(row),
                              IF IsSome(enc) THEN Some(Unwrap(enc).encrypted_blob) ELSE None,
                              IF IsSome(enc) THEN Some(Unwrap(enc).sha256sum) ELSE None,
                              IF IsSome(enc) THEN Some(Unwrap(enc).dek_id) ELSE None,
                              req[p].payload.ttl, req[p].payload.integration_type)},
                          !.locks = @ \cup {ConnRow(public_id)}])
    /\ UNCHANGED <<now, overflowChecks, db, written, gate, bump, heap>>

\* ConnectionService::update_vault_connection, lines 128-139: commit and respond.
UpdateVaultConnectionCommit(p) ==
    /\ Delivered
    /\ pc[p] = "cu_commit"
    /\ Commit(tx[p])
    /\ Finish(p, req[p], Response("Ok", "", <<>>))
    /\ UNCHANGED <<now, overflowChecks, written, gate, bump, heap>>

\* ConnectionHandler::get_vault_connection and ConnectionService::get_vault_connection.
GetVaultConnection(p, r) ==
    /\ Delivered
    /\ Idle(p)
    /\ Admit(r, NowMs, overflowChecks).result = "Forward"
    /\ HandlerOf(r) = "ConnectionHandler::get_vault_connection"
    /\ LET row == ConnectionBy("public_id", r.path[3])
       IN  IF ~get_public_id_regex(r.path[3])
           THEN Finish(p, r, Response("InvalidInput", "", <<>>))
           ELSE IF ~IsSome(row)
           THEN Finish(p, r, Response("NotFoundError", "", <<>>))
           ELSE LET d == decrypt(deks, Unwrap(row).dek_id, Unwrap(row).encrypted_config)
                IN  IF d.error # "Ok" THEN Finish(p, r, Response(d.error, "", <<>>))
                    ELSE Finish(p, r, Response("Ok", d.value, <<>>))
    /\ UNCHANGED <<now, overflowChecks, db, written, gate, bump, heap>>

\* ConnectionHandler::delete_vault_connection and
\* ConnectionService::delete_vault_connection: one DELETE on the pool, which
\* waits for another transaction's uncommitted write of the row.
DeleteVaultConnection(p, r) ==
    /\ Delivered
    /\ Idle(p)
    /\ Admit(r, NowMs, overflowChecks).result = "Forward"
    /\ HandlerOf(r) = "ConnectionHandler::delete_vault_connection"
    /\ LET row == ConnectionBy("public_id", r.path[3])
       IN  /\ IsSome(row) => ~HeldByOther(p, ConnRow(r.path[3]))
           /\ IF ~get_public_id_regex(r.path[3])
              THEN Finish(p, r, Response("InvalidInput", "", <<>>)) /\ UNCHANGED connections
              ELSE IF ~IsSome(row)
              THEN Finish(p, r, Response("NotFoundError", "", <<>>)) /\ UNCHANGED connections
              ELSE \E fk \in ForeignKeyOutcomes :
                     IF fk = "restrict"
                        /\ \E s \in secrets : s.vault_connection_id = Some(Unwrap(row).id)
                     THEN Finish(p, r, Response(FromSqlxError("foreign_key_violation"),
                                                "", <<>>))
                          /\ UNCHANGED connections
                     ELSE /\ connections' = connections \ {Unwrap(row)}
                          /\ Finish(p, r, Response("NoContent", "", <<>>))
    /\ UNCHANGED <<now, overflowChecks, deks, nextDekId, secrets, versions, written, gate, bump, heap>>

\* The client goes away and the task is dropped at an await: the open
\* transaction is rolled back and no response is sent.
Cancel(p) ==
    /\ Delivered
    /\ ~Idle(p)
    /\ pc' = [pc EXCEPT ![p] = "idle"]
    /\ req' = [req EXCEPT ![p] = NoReq]
    /\ loc' = [loc EXCEPT ![p] = NoLoc]
    /\ tx' = [tx EXCEPT ![p] = NoTx]
    /\ resp' = NoResp
    /\ UNCHANGED <<now, overflowChecks, db, written, gate, bump, heap>>

\* The requests of authentic clients among rs.
ValidOnly(rs) == {r \in rs : r.auth = "valid"}
\* The secret requests sent alongside the connection operations: the valid
\* creations, the reads, one new version.
SecretRequestsConn ==
    [create |-> {r \in ValidOnly(CreateSecretRequests) :
                    IsSome(r.payload.vault_connection) # IsSome(r.payload.value)},
     get |-> ValidOnly(GetSecretRequests),
     version |-> {r \in ValidOnly(CreateSecretVersionRequests) :
                    r.payload.version_tag = TagV1 /\ r.payload.value = Some("B")},
     get_version |-> {r \in ValidOnly(GetSecretVersionRequests) : r.path[5] \in {TagV, TagV1}}]

\* The secret operations together with the vault-connection operations and
\* the cancellation of a request, by authentic clients, while the clock
\* stands still (no connection operation reads it).
NextConn ==
    \/ Deliver
    \/ \E p \in Procs, r \in SecretRequestsConn.create : CreateSecret(p, r)
    \/ \E p \in Procs : CreateSecretValue(p)
    \/ \E p \in Procs : CreateSecretInsert(p)
    \/ \E p \in Procs : CreateSecretCommit(p)
    \/ \E p \in Procs, r \in SecretRequestsConn.get : GetSecret(p, r)
    \/ \E p \in Procs : RefreshFetch(p)
    \/ \E p \in Procs : RefreshTouchVersion(p)
    \/ \E p \in Procs : RefreshTouchSecret(p)
    \/ \E p \in Procs : RefreshInsert(p)
    \/ \E p \in Procs : RefreshUpdate(p)
    \/ \E p \in Procs : RefreshCommit(p)
    \/ \E p \in Procs, r \in SecretRequestsConn.version : CreateSecretVersion(p, r)
    \/ \E p \in Procs : CreateSecretVersionLock(p)
    \/ \E p \in Procs : CreateSecretVersionInsert(p)
    \/ \E p \in Procs : CreateSecretVersionUpdate(p)
    \/ \E p \in Procs : CreateSecretVersionCommit(p)
    \/ \E p \in Procs, r \in SecretRequestsConn.get_version : GetSecretVersion(p, r)
    \/ \E p \in Procs, r \in ValidOnly(CreateVaultConnectionRequests) :
          CreateVaultConnection(p, r)
    \/ \E p \in Procs : CreateVaultConnectionInsert(p)
    \/ \E p \in Procs : CreateVaultConnectionCommit(p)
    \/ \E p \in Procs, r \in UpdateVaultConnectionCalls : UpdateVaultConnection(p, r)
    \/ \E p \in Procs : UpdateVaultConnectionUpdate(p)
    \/ \E p \in Procs : UpdateVaultConnectionCommit(p)
    \/ \E p \in Procs, r \in ValidOnly(GetVaultConnectionRequests) : GetVaultConnection(p, r)
    \/ \E p \in Procs, r \in ValidOnly(DeleteVaultConnectionRequests) :
          DeleteVaultConnection(p, r)
    \/ \E p \in Procs : Cancel(p)

\* The provisioned connection has a ttl of 0 seconds, which every payload
\* above keeps: the ttl decides nothing in the connection operations.
InitConn == Init /\ \A c \in connections : c.ttl = Some(0)

SpecConn == InitConn /\ [][NextConn]_vars

\* ------------------------------- the vault connections on their own
\* Update payloads: every combination of an integration type (absent,
\* registered, not registered), a config (absent or present) and a ttl
\* (absent or present).
VaultUpdatePayloads ==
    {[NoPayload EXCEPT !.integration_type = it, !.config = cfg, !.ttl = ttl] :
        it \in {None, Some("aws_secrets_manager"), Some("unknown")},
        cfg \in {None, Some("cf3")},
        ttl \in {None, Some(60)}}
VaultUpdateCalls ==
    {[method |-> "PATCH", path |-> <<"v1", "vault-connections", id>>, payload |-> b,
      auth |-> "valid"] : id \in PublicIds, b \in VaultUpdatePayloads}
\* A creation payload without a ttl, next to those above.
VaultCreateRequests ==
    ValidOnly(CreateVaultConnectionRequests)
    \cup {[method |-> "POST", path |-> <<"v1", "vault-connections">>, auth |-> "valid",
           payload |-> [NoPayload EXCEPT !.public_id = "conn-0001",
                                         !.integration_type = Some("aws_secrets_manager"),
                                         !.config = Some("cf3")]]}

\* The vault-connection operations and the cancellation of a request, by
\* authentic clients, with no secret stored.
NextVault ==
    \/ Deliver
    \/ \E p \in Procs, r \in VaultCreateRequests : CreateVaultConnection(p, r)
    \/ \E p \in Procs : CreateVaultConnectionInsert(p)
    \/ \E p \in Procs : CreateVaultConnectionCommit(p)
    \/ \E p \in Procs, r \in VaultUpdateCalls : UpdateVaultConnection(p, r)
    \/ \E p \in Procs : UpdateVaultConnectionUpdate(p)
    \/ \E p \in Procs : UpdateVaultConnectionCommit(p)
    \/ \E p \in Procs, r \in ValidOnly(GetVaultConnectionRequests) : GetVaultConnection(p, r)
    \/ \E p \in Procs, r \in ValidOnly(DeleteVaultConnectionRequests) :
          DeleteVaultConnection(p, r)
    \/ \E p \in Procs : Cancel(p)

SpecVault == Init /\ [][NextVault]_vars

\* ------------------------------------------------ the gate on its own
\* The bodies a client sends: none, one byte, the cap, one byte over the cap.
GateBodies ==
    {EmptyBody, [len |-> 1, data |-> <<"b">>],
     [len |-> MAX_BODY_SIZE, data |-> <<"cap">>],
     [len |-> MAX_BODY_SIZE + 1, data |-> <<"over">>]}
GatePaths == {<<"v1", "secrets">>, <<"v1", "secrets", "k">>}

\* X-Timestamp headers: absent, not visible ASCII, no integer, out of the i64
\* range, and integers at the edges of the window and of the i64 range.
GateTimestamps ==
    {[kind |-> "missing", text |-> <<>>], [kind |-> "not_str", text |-> <<>>],
     [kind |-> "text", text |-> <<"x">>],
     [kind |-> "text", text |-> <<"", I64_MAX + 1>>],
     [kind |-> "text", text |-> <<"+", GateEpoch>>]}
    \cup {[kind |-> "text", text |-> <<"", t>>] :
            t \in {GateEpoch + d : d \in {0 - 2 * MAX_TIMESTAMP_DIFF_MS,
                                          0 - MAX_TIMESTAMP_DIFF_MS - 1,
                                          0 - MAX_TIMESTAMP_DIFF_MS, 0,
                                          MAX_TIMESTAMP_DIFF_MS,
                                          MAX_TIMESTAMP_DIFF_MS + 1}}
                  \cup {I64_MIN, I64_MAX, GateEpoch + I64_MIN}}

\* X-Signature headers: absent, not visible ASCII, not hex, not 64 bytes, or a
\* signature by either key of the digest of the request as sent ("sent"), of
\* the request with an empty body ("empty"), or of another path ("other").
GateSignatures(ts, path, body) ==
    {NoSig(k) : k \in {"missing", "not_str", "bad_hex", "bad_len"}}
    \cup {Sign(key, SignedDigest(ts.text, pb[1], pb[2])) :
            key \in {AuthKey, OtherKey},
            pb \in {<<path, body>>, <<path, EmptyBody>>, <<<<"v1">>, body>>}}

HttpRequests(methods, queries, bodies, timestamps, kinds, signers) ==
    UNION {{[method |-> m, path |-> path, query |-> q, body |-> body,
             x_timestamp |-> ts, x_signature |-> sig] :
                sig \in {x \in GateSignatures(ts, path, body) :
                            x.kind \in kinds /\ x.key \in signers}} :
           m \in methods, path \in {<<"v1", "secrets", "k">>}, q \in queries,
           body \in bodies, ts \in timestamps}

InWindow == {[kind |-> "text", text |-> <<"", GateEpoch>>]}
OneByte == {[len |-> 1, data |-> <<"b">>]}

\* Every method, query and body with a timestamp in the window; every
\* timestamp, and every signature header, on a GET and on a POST.
GateRequests ==
    HttpRequests({"GET", "POST", "DELETE"}, {"", "a=1"}, GateBodies, InWindow,
                 {"sig"}, {AuthKey, OtherKey})
    \cup HttpRequests({"GET", "POST"}, {""}, OneByte, GateTimestamps,
                      {"sig", "missing", "bad_hex"}, {AuthKey, ""})
    \cup HttpRequests({"GET", "POST"}, {""}, OneByte,
                      InWindow \cup {[kind |-> "missing", text |-> <<>>],
                                     [kind |-> "text", text |-> <<"x">>]},
                      {"sig", "missing", "not_str", "bad_hex", "bad_len"},
                      {AuthKey, OtherKey, ""})

\* One request through verify_signature at the gate's clock; `handled` is
\* whether next.run(req) was called.
GateRequest(r) ==
    /\ gate' = [gate EXCEPT !.req = r,
                            !.out = verify_signature(r, gate.now, overflowChecks),
                            !.handled = verify_signature(r, gate.now,
                                                         overflowChecks).result = "Forward"]
    /\ UNCHANGED <<now, overflowChecks, db, pc, req, loc, tx, resp, written, bump, heap>>

\* The gate's clock moves on by a millisecond between two requests.
GateTick ==
    /\ gate.now < GateEpoch + GateTicks
    /\ gate' = [NoGate EXCEPT !.now = gate.now + 1]
    /\ UNCHANGED <<now, overflowChecks, db, pc, req, loc, tx, resp, written, bump, heap>>

\* The service is built with or without integer overflow checks.
InitGate == overflowChecks \in BOOLEAN /\ Boot

NextGate ==
    \/ \E r \in GateRequests : GateRequest(r)
    \/ GateTick

SpecGate == InitGate /\ [][NextGate]_vars

\* ------------------------------------ get_next_version_tag on its own
\* The tags of at most MaxTagLen characters that pass validation, the tags of
\* the documentation, and decimal runs around u32::MAX.
RECURSIVE TagsOfLen(_)
TagsOfLen(n) ==
    IF n = 0 THEN {<<>>} ELSE {t \o <<c>> : t \in TagsOfLen(n - 1), c \in TagChars}
BumpTags ==
    {t \in UNION {TagsOfLen(n) : n \in 1..MaxTagLen} : ValidVersionTag(t)}
    \cup {<<"v", "-", "7">>, <<"v", "-", "0", "0", "7">>, <<"v", "-", "9", "9">>,
          <<"a", "p", "i", "_", "k", "e", "y", ".", "3">>,
          <<"a", "b", "c">>, <<"v", "1", "b", "e", "t", "a", "2">>,
          <<"v", "-">> \o SubSeq(U32_MAX_DIGITS, 1, 9) \o <<"4">>,
          <<"v", "-">> \o U32_MAX_DIGITS,
          <<"v", "-">> \o SubSeq(U32_MAX_DIGITS, 1, 9) \o <<"6">>,
          <<"v", "-", "0">> \o U32_MAX_DIGITS}

\* One call of get_next_version_tag.
NextVersionTag(tag) ==
    /\ bump' = [tag |-> tag, next |-> get_next_version_tag(tag, overflowChecks)]
    /\ UNCHANGED <<now, overflowChecks, db, pc, req, loc, tx, resp, written, gate, heap>>

NextTag == \E tag \in BumpTags : NextVersionTag(tag)

SpecTag == InitGate /\ [][NextTag]_vars

\* ------------------------------------------------- the longest version tags
\* A version tag of the greatest length the request validation admits.
LongTag == [i \in 1..20 |-> "a"]
\* Creations of a local and of a proxied secret under a short and under the
\* longest tag, all of which pass validation.
LongTagCreateRequests ==
    {[method |-> "POST", path |-> <<"v1", "secrets">>, auth |-> "valid",
      payload |-> [NoPayload EXCEPT !.name = n, !.value = src.value,
                                    !.vault_connection = src.vault_connection,
                                    !.version_tag = t]] :
        n \in Names, t \in {TagV, LongTag},
        src \in {[value |-> Some("A"), vault_connection |-> None],
                 [value |-> None, vault_connection |-> Some("conn-0001")]}}
\* New versions under a short and under the longest tag.
LongTagVersionRequests ==
    {[method |-> "POST", path |-> <<"v1", "secrets", n, "versions">>, auth |-> "valid",
      payload |-> [NoPayload EXCEPT !.value = Some("B"), !.version_tag = t]] :
        n \in Names, t \in {TagV1, LongTag}}

\* The secret operations that write a version tag, and the reads that refresh,
\* from authentic clients as the clock advances.
NextLongTag ==
    \/ Deliver
    \/ Tick
    \/ \E p \in Procs, r \in LongTagCreateRequests : CreateSecret(p, r)
    \/ \E p \in Procs : CreateSecretValue(p)
    \/ \E p \in Procs : CreateSecretInsert(p)
    \/ \E p \in Procs : CreateSecretCommit(p)
    \/ \E p \in Procs, r \in ValidOnly(GetSecretRequests) : GetSecret(p, r)
    \/ \E p \in Procs : RefreshFetch(p)
    \/ \E p \in Procs : RefreshTouchVersion(p)
    \/ \E p \in Procs : RefreshTouchSecret(p)
    \/ \E p \in Procs : RefreshInsert(p)
    \/ \E p \in Procs : RefreshUpdate(p)
    \/ \E p \in Procs : RefreshCommit(p)
    \/ \E p \in Procs, r \in LongTagVersionRequests : CreateSecretVersion(p, r)
    \/ \E p \in Procs : CreateSecretVersionLock(p)
    \/ \E p \in Procs : CreateSecretVersionInsert(p)
    \/ \E p \in Procs : CreateSecretVersionUpdate(p)
    \/ \E p \in Procs : CreateSecretVersionCommit(p)

SpecLongTag == Init /\ [][NextLongTag]_vars

\* ------------------------------------------------------- a failing provider
\* From<ProviderError> for AppError: InvalidConfiguration (factory.create),
\* SecretNotFound and ClientError (provider.get_secret).
ProviderErrors == {"InvalidInput", "NotFoundError", "KmsError"}

\* refresh_proxied_secret, lines 208-209: factory.create or provider.get_secret
\* returns an error, which leaves the function through `?` before begin().
RefreshFetchFails(p) ==
    /\ Delivered
    /\ pc[p] = "rf_fetch"
    /\ ResolveConnection(ConnectionBy("id", Unwrap(loc[p].vc_id))).error = "Ok"
    /\ \E e \in ProviderErrors : Finish(p, req[p], Response(e, "", <<>>))
    /\ UNCHANGED <<now, overflowChecks, db, written, gate, bump, heap>>

\* The creations of a proxied secret that pass validation.
UpstreamCreateRequests ==
    {r \in ValidOnly(CreateSecretRequests) :
        IsSome(r.payload.vault_connection) /\ ~IsSome(r.payload.value)}

\* Reads of a proxied secret by authentic clients as the clock advances, over
\* a provider that answers with a value or with an error.
NextUpstream ==
    \/ Deliver
    \/ Tick
    \/ \E p \in Procs, r \in UpstreamCreateRequests : CreateSecret(p, r)
    \/ \E p \in Procs : CreateSecretValue(p)
    \/ \E p \in Procs : CreateSecretInsert(p)
    \/ \E p \in Procs : CreateSecretCommit(p)
    \/ \E p \in Procs, r \in ValidOnly(GetSecretRequests) : GetSecret(p, r)
    \/ \E p \in Procs : RefreshFetch(p)
    \/ \E p \in Procs : RefreshFetchFails(p)
    \/ \E p \in Procs : RefreshTouchVersion(p)
    \/ \E p \in Procs : RefreshTouchSecret(p)
    \/ \E p \in Procs : RefreshInsert(p)
    \/ \E p \in Procs : RefreshUpdate(p)
    \/ \E p \in Procs : RefreshCommit(p)

SpecUpstream == Init /\ [][NextUpstream]_vars

\* ------------------------- the reads of one proxied secret, with retries
\* What create_secret_with_version commits for the proxied secret "k" created
\* with tag `tag` when the upstream value was `value`: the DEK of crypto::encrypt, the Secret row and
\* its first version.
CreatedProxied(tag, value) ==
    LET e == encrypt(2, CHOOSE k \in KekTable : TRUE, value)
    IN  [dek |-> e.dek,
         secret |-> create_secret("k", Some(1), tag),
         version |-> create_secret_version("k", tag, e.payload.sha256sum,
                                           e.payload.encrypted_blob, e.payload.dek_id)]

\* The service after one proxied secret was created and answered, before any
\* read of it.
InitRetry ==
    /\ overflowChecks = FALSE
    /\ now = 0
    /\ \E ttl \in Ttls :
          /\ deks = {ProvisionedConnection(ttl).dek, CreatedProxied(TagV, "A").dek}
          /\ connections = {ProvisionedConnection(ttl).row}
    /\ nextDekId = 3
    /\ secrets = {CreatedProxied(TagV, "A").secret}
    /\ versions = {CreatedProxied(TagV, "A").version}
    /\ pc = [p \in Procs |-> "idle"]
    /\ req = [p \in Procs |-> NoReq]
    /\ loc = [p \in Procs |-> NoLoc]
    /\ tx = [p \in Procs |-> NoTx]
    /\ resp = NoResp
    /\ written = {[name |-> "k", tag |-> TagV, value |-> "A"]}
    /\ gate = NoGate
    /\ bump = NoBump
    /\ heap = {}

\* A caller sends its read of a secret, for the first time or again.
Retry(p) == \E r \in ValidOnly(GetSecretRequests) : GetSecret(p, r)

NextRetry ==
    \/ Deliver
    \/ Tick
    \/ \E p \in Procs : Retry(p)
    \/ \E p \in Procs : RefreshFetch(p)
    \/ \E p \in Procs : RefreshTouchVersion(p)
    \/ \E p \in Procs : RefreshTouchSecret(p)
    \/ \E p \in Procs : RefreshInsert(p)
    \/ \E p \in Procs : RefreshUpdate(p)
    \/ \E p \in Procs : RefreshCommit(p)

\* Responses reach their callers, and a caller that is free to send its read
\* again and again does send it (the callers retry).
FairRetry ==
    /\ WF_vars(Deliver)
    /\ \A p \in Procs : SF_vars(Retry(p))

SpecRetry == InitRetry /\ [][NextRetry]_vars /\ FairRetry

\* --------------------------- the minting refreshes of one secret, in turn
\* The largest value of the integer `num + 1` is computed in, as a decimal
\* string: u32 scaled to MintBits bits, so that a chain of mints reaches it.
RECURSIVE DecDigits(_)
DecDigits(n) ==
    IF n < 10 THEN <<DigitChar(n)>> ELSE DecDigits(n \div 10) \o <<DigitChar(n % 10)>>
MintMax == DecDigits(Pow2(MintBits) - 1)

\* SecretService::get_next_version_tag with `num` in an unsigned integer whose
\* largest value is written max_digits (U32_MAX_DIGITS in the source).
get_next_version_tag_in(current_tag, overflow_checks, max_digits) ==
    LET start == EndingNumberStart(current_tag, Len(current_tag))
        run == SubSeq(current_tag, start, Len(current_tag))
        prefix == SubSeq(current_tag, 1, start - 1)
    IN  IF start > Len(current_tag)
        THEN [panic |-> FALSE, tag |-> current_tag \o <<"-", "1">>]
        ELSE IF ~DecLeq(StripZeros(run), max_digits)
        THEN [panic |-> FALSE, tag |-> current_tag \o <<"-", "1">>]
        ELSE IF StripZeros(run) = max_digits
        THEN IF overflow_checks
             THEN [panic |-> TRUE, tag |-> <<>>]
             ELSE [panic |-> FALSE, tag |-> prefix \o <<"0">>]
        ELSE [panic |-> FALSE, tag |-> prefix \o DecIncrement(StripZeros(run))]

\* The service after one proxied secret was created with a valid tag and
\* answered, before any read of it; every read refreshes (ttl 0).
InitMint ==
    /\ overflowChecks \in BOOLEAN
    /\ now = 0
    /\ deks = {ProvisionedConnection(Some(0)).dek, CreatedProxied(TagV, "A").dek}
    /\ connections = {ProvisionedConnection(Some(0)).row}
    /\ nextDekId = 3
    /\ \E tag \in BumpTags :
          /\ secrets = {CreatedProxied(tag, "A").secret}
          /\ versions = {CreatedProxied(tag, "A").version}
          /\ written = {[name |-> "k", tag |-> tag, value |-> "A"]}
    /\ pc = [p \in Procs |-> "idle"]
    /\ req = [p \in Procs |-> NoReq]
    /\ loc = [p \in Procs |-> NoLoc]
    /\ tx = [p \in Procs |-> NoTx]
    /\ resp = NoResp
    /\ gate = NoGate
    /\ bump = NoBump
    /\ heap = {}

\* One get_current_version at the next clock reading, run to its response
\* with no other task in flight: the stored value has expired, the provider
\* returns `upstream`, whose hash differs from the current version's, and
\* update_secret_from_provider mints the next tag, inserts the version,
\* moves the pointers and commits, unless the mint panics or the INSERT
\* violates the unique key. The chain is followed to its first failure.
MintingRefresh(upstream) ==
    /\ resp.error \notin {"Conflict", "Panic"}
    /\ \E secret \in {s \in secrets : is_proxied(s) /\ should_refresh(s, now + 1)},
          c \in connections :
          LET r == CHOOSE x \in ValidOnly(GetSecretRequests) : x.path[3] = secret.name
              next == get_next_version_tag_in(Unwrap(secret.current_version),
                                              overflowChecks, MintMax)
              e == encrypt(nextDekId, CHOOSE k \in KekTable : TRUE, upstream)
              out(response) == [req |-> r, error |-> response.error,
                                status |-> response.status, value |-> response.value,
                                version_tag |-> response.version_tag]
          IN  /\ CompareWithCurrent(secret, upstream) = "changed"
              /\ now' = now + 1
              /\ IF next.panic
                 THEN /\ resp' = out(Response("Panic", "", <<>>))
                      /\ UNCHANGED <<db, nextDekId, written>>
                 ELSE IF VersionKeyTaken(secret.name, next.tag)
                 THEN /\ resp' = out(Response(FromSqlxError("unique_violation"), "", <<>>))
                      /\ nextDekId' = nextDekId + 1
                      /\ UNCHANGED <<deks, secrets, versions, connections, written>>
                 ELSE /\ deks' = deks \cup {e.dek}
                      /\ nextDekId' = nextDekId + 1
                      /\ versions' = versions \cup
                            {create_secret_version(secret.name, next.tag, e.payload.sha256sum,
                                                   e.payload.encrypted_blob, e.payload.dek_id)}
                      /\ secrets' = {update_secret_proxied(secret, next.tag,
                                         secret.current_version, ExpireAt(now + 1, c.ttl))}
                      /\ written' = written \cup
                            {[name |-> secret.name, tag |-> next.tag, value |-> upstream]}
                      /\ resp' = out(Response("Ok", upstream, next.tag))
                      /\ UNCHANGED connections
    /\ UNCHANGED <<overflowChecks, pc, req, loc, tx, gate, bump, heap>>

NextMint == \E upstream \in Values : MintingRefresh(upstream)

SpecMint == InitMint /\ [][NextMint]_vars

\* ----------------------------------------------------------- released memory
\* A buffer at the moment it is released: the container that held it and the
\* data key (by the number of the KMS call that made it) or plaintext in it.
Buffer(container, kind, key, text) ==
    [container |-> container, kind |-> kind, key |-> key, text |-> text]
\* Zeroizing<T> overwrites its content when dropped; Vec<u8>, String and the
\* SDK's Blob are freed with their content in place.
WipedOnDrop(container) == container = "Zeroizing"
\* What the released buffers leave readable in freed memory.
Residue(buffers) == {b \in buffers : ~WipedOnDrop(b.container)}

\* The exits of crypto::encrypt: the seven `?` of lines 27-56 and the Ok of 58.
EncryptExits ==
    {"kek_error", "kms_error", "no_plaintext", "no_blob", "cipher_error", "seal_error",
     "dek_error", "ok"}
\* crypto::encrypt: the buffers it releases when it returns by `exit`. From
\* line 37 on the data key is in data_key_response (a Blob), which is dropped
\* at the return with no write to it; the plaintext is borrowed, not released.
encrypt_released(exit, key) ==
    IF exit \in {"kek_error", "kms_error", "no_plaintext"} THEN {}
    ELSE {Buffer("Blob", "data_key", key, "")}

\* The exits of crypto::decrypt: the `?` of lines 72-113 and the Ok of 115.
DecryptExits ==
    {"dek_error", "kek_error", "hex_key_error", "kms_error", "no_plaintext",
     "hex_value_error", "short_value", "cipher_error", "open_error", "ok"}
\* crypto::decrypt: the buffers it releases when it returns by `exit`. From
\* line 88 on the data key is in decrypt_response (a Blob), dropped at the
\* return; the plaintext of the Ok exit is moved to the caller.
decrypt_released(exit, key) ==
    IF exit \in {"dek_error", "kek_error", "hex_key_error", "kms_error", "no_plaintext"}
    THEN {}
    ELSE {Buffer("Blob", "data_key", key, "")}

\* decrypt_secret_value and decrypt_connection_config: the Vec<u8> returned by
\* decrypt is moved into a Zeroizing<String>, or dropped inside the
\* FromUtf8Error when it is not UTF-8.
decrypted_released(utf8, text) ==
    IF utf8 THEN {Buffer("Zeroizing", "plaintext", 0, text)}
    ELSE {Buffer("Vec", "plaintext", 0, text)}

\* models.rs: SecretResponse.value is a String, VaultConnectionResponse.config
\* and the request configs are Zeroizing<String>.
response_released(response, text) ==
    IF response = "SecretResponse" THEN {Buffer("String", "plaintext", 0, text)}
    ELSE {Buffer("Zeroizing", "plaintext", 0, text)}

\* A call of crypto::encrypt returns.
EncryptReturns(exit, key) ==
    /\ heap' = heap \cup Residue(encrypt_released(exit, key))
    /\ UNCHANGED <<now, overflowChecks, db, pc, req, loc, tx, resp, written, gate, bump>>
\* A call of crypto::decrypt returns, and on Ok its caller converts and later
\* drops the plaintext.
DecryptReturns(exit, key, utf8, text) ==
    /\ heap' = heap \cup Residue(decrypt_released(exit, key))
                    \cup (IF exit = "ok" THEN Residue(decrypted_released(utf8, text)) ELSE {})
    /\ UNCHANGED <<now, overflowChecks, db, pc, req, loc, tx, resp, written, gate, bump>>
\* A response that carries a plaintext has been serialized and is dropped.
ResponseDropped(response, text) ==
    /\ heap' = heap \cup Residue(response_released(response, text))
    /\ UNCHANGED <<now, overflowChecks, db, pc, req, loc, tx, resp, written, gate, bump>>

\* encrypt and decrypt returning by every exit, for the data keys of up to
\* MaxDeks KMS calls, and the responses released.
NextHeap ==
    \/ \E exit \in EncryptExits, key \in 1..MaxDeks : EncryptReturns(exit, key)
    \/ \E exit \in DecryptExits, key \in 1..MaxDeks, utf8 \in BOOLEAN, text \in Values :
          DecryptReturns(exit, key, utf8, text)
    \/ \E response \in {"SecretResponse", "VaultConnectionResponse"}, text \in Values :
          ResponseDropped(response, text)

SpecHeap == Init /\ [][NextHeap]_vars

\* =================================================================== claims
\* The last step answered a request of an authentic client on route `handler`.
Answered(handler) ==
    resp # NoResp /\ resp.req.auth = "valid" /\ HandlerOf(resp.req) = handler
\* The committed secrets row of the path parameter {name} of request r, if any.
SecretOf(r) == SecretByName(secrets, r.path[3])
\* The tags of the committed versions of secret `name`.
TagsIn(table, name) == {v.version_tag : v \in {x \in table : x.secret_id = name}}
TagsOf(name) == TagsIn(versions, name)

\* C1: verify_signature runs the handler exactly when X-Signature is a valid
\* P-256 signature, under the configured key, of SHA-256(T "\n" P "\n" B) and
\* |now_ms - T| <= 5000 (B the body the gate reads, within its cap); in every
\* other case the handler is not run.
C1_ForwardsIffSignedInWindow ==
    gate.req # NoHttp =>
        LET r == gate.req
            B == IF r.method \in {"GET", "DELETE"} THEN EmptyBody ELSE r.body
            signed == /\ r.x_signature.kind = "sig"
                      /\ r.x_timestamp.kind = "text"
                      /\ EcdsaVerify(AuthKey,
                                     SignedDigest(r.x_timestamp.text, r.path, B),
                                     r.x_signature)
            in_window == /\ r.x_timestamp.kind = "text"
                         /\ Len(r.x_timestamp.text) = 2
                         /\ InI64(r.x_timestamp.text[2])
                         /\ gate.now - r.x_timestamp.text[2] <= MAX_TIMESTAMP_DIFF_MS
                         /\ r.x_timestamp.text[2] - gate.now <= MAX_TIMESTAMP_DIFF_MS
        IN  B.len <= MAX_BODY_SIZE => (gate.handled <=> (signed /\ in_window))

\* C2: no service operation runs for a request verify_signature did not
\* accept: every registered route is behind the gate, a task is in flight
\* only for an accepted request, and a rejected request changes no stored
\* state and starts no transaction.
C2_OnlyAcceptedRequestsRun ==
    [][/\ build_router.routes \subseteq build_router.gated
       /\ \A p \in Procs :
             /\ (pc[p] = "idle" /\ pc'[p] # "idle") =>
                   verify_signature(HttpRequest(req'[p], NowMs), NowMs,
                                    overflowChecks).result = "Forward"
             /\ (pc[p] # "idle" /\ pc'[p] # "idle") => req'[p] = req[p]
       /\ (resp' # NoResp
           /\ verify_signature(HttpRequest(resp'.req, NowMs), NowMs,
                               overflowChecks).result # "Forward")
             => (UNCHANGED <<db, written, pc, tx, loc>> /\ resp'.status = 401)]_vars

\* A forged request was answered 401 while a secret is stored.
C2_Witness ==
    resp # NoResp /\ resp.req.auth = "forged" /\ resp.status = 401 /\ secrets # {}

\* C3: in every committed state, each secret whose current_version is set has
\* a secret_versions row with its id and that tag.
C3_CurrentVersionExists ==
    \A s \in secrets :
        IsSome(s.current_version) => Unwrap(s.current_version) \in TagsOf(s.name)

\* A refresh and a version write have each advanced a current_version.
C3_Witness ==
    \E s \in secrets : s.current_version \in {Some(<<"v", "-", "1">>), Some(TagV2)}

\* C4: in every committed state, each secret whose previous_version is set has
\* a secret_versions row with that tag, and previous_version differs from
\* current_version.
C4_PreviousVersionExistsAndDiffers ==
    \A s \in secrets :
        IsSome(s.previous_version) =>
            /\ Unwrap(s.previous_version) \in TagsOf(s.name)
            /\ s.previous_version # s.current_version

\* A secret whose previous_version is not its first tag: it advanced twice.
C4_Witness ==
    \E s \in secrets : IsSome(s.previous_version) /\ s.previous_version # Some(TagV)

\* C5 (as stated): POST /v1/secrets/{name}/versions on a proxied secret is
\* answered 405 for every payload and leaves secrets, versions and DEKs as
\* they were.
C5_ProxiedWriteAlways405 ==
    [][(Answered("SecretHandler::create_secret_version")'
        /\ IsSome(SecretOf(resp'.req))
        /\ IsSome(Unwrap(SecretOf(resp'.req)).vault_connection_id))
          => (resp'.status = 405 /\ UNCHANGED <<secrets, versions, deks>>)]_vars

\* C5 (amended): on a proxied secret the write is answered 405 for every
\* payload that passes validation (a non-empty value, a version_tag of 1..20
\* characters of the tag alphabet) and 400 ValidationError for any other; in
\* both cases secrets, versions and DEKs are left as they were.
C5_ProxiedWrite405WhenValid ==
    [][(Answered("SecretHandler::create_secret_version")'
        /\ IsSome(SecretOf(resp'.req))
        /\ IsSome(Unwrap(SecretOf(resp'.req)).vault_connection_id))
          => /\ UNCHANGED <<secrets, versions, deks>>
             /\ LET payload == resp'.req.payload
                    valid == /\ Unwrap(payload.value) # ""
                             /\ Len(payload.version_tag) \in 1..20
                             /\ \A i \in 1..Len(payload.version_tag) :
                                   payload.version_tag[i] \in TagChars
                                   /\ (i \in {1, Len(payload.version_tag)}
                                         => payload.version_tag[i] \in Alnum)
                IN  IF valid THEN resp'.error = "MethodNotAllowed" /\ resp'.status = 405
                    ELSE resp'.error = "ValidationError" /\ resp'.status = 400]_vars

\* A valid version write on a proxied secret was answered 405.
C5_Witness ==
    /\ Answered("SecretHandler::create_secret_version")
    /\ resp.status = 405
    /\ \E s \in secrets : s.name = resp.req.path[3] /\ IsSome(s.vault_connection_id)

\* Every read returns what was written: the current version of a local secret
\* and every version by tag decrypt to the value committed under that tag.
ReadsReturnWritten ==
    /\ \A s \in secrets :
          ~IsSome(s.vault_connection_id) =>
             \E w \in written :
                /\ w.name = s.name /\ Some(w.tag) = s.current_version
                /\ ReadCurrent(s) = Response("Ok", w.value, w.tag)
    /\ \A w \in written : get_secret_version(w.name, w.tag) = Response("Ok", w.value, w.tag)
    /\ \A w1, w2 \in written : (w1.name = w2.name /\ w1.tag = w2.tag) => w1 = w2

\* C6: a successful create_secret_version(name, value, tag) on a local secret
\* whose current_version was c leaves current_version = tag and
\* previous_version = c; get_current_version then returns (value, tag) and
\* get_version returns, for every tag, the value written under it.
C6_VersionWriteAdvancesPointers ==
    [][/\ \A p \in Procs :
             (pc[p] = "csv_commit" /\ pc'[p] = "idle") =>
                LET name == Unwrap(loc[p].secret).name
                    before == Unwrap(SecretByName(secrets, name))
                    after == Unwrap(SecretByName(secrets', name))
                IN  /\ resp'.status = 201
                    /\ after.current_version = Some(req[p].payload.version_tag)
                    /\ after.previous_version = before.current_version
                    /\ [name |-> name, tag |-> req[p].payload.version_tag,
                        value |-> Unwrap(req[p].payload.value)] \in written'
       /\ <<db, written>>' # <<db, written>> => ReadsReturnWritten']_vars

\* A version write was answered 201 and the secret has advanced twice.
C6_Witness ==
    /\ Answered("SecretHandler::create_secret_version")
    /\ resp.status = 201
    /\ \E s \in secrets : s.current_version = Some(TagV2) /\ s.previous_version = Some(TagV1)

\* The positions of create_secret_version at which the row lock is held.
UnderRowLock == {"csv_insert", "csv_update", "csv_commit"}

\* C7: concurrent create_secret_version calls on one local secret are serialized
\* by the row lock: at most one is past the SELECT ... FOR UPDATE, the row it
\* read is the committed one, a call fails only if its tag is already
\* committed, and once both v1 and v2 are written the secret points at one as
\* current and at the other as previous.
C7_VersionWritesSerialized ==
    [][/\ \A p, q \in Procs :
             (p # q /\ pc'[p] \in UnderRowLock) => pc'[q] \notin UnderRowLock
       /\ \A p \in Procs :
             pc'[p] \in UnderRowLock =>
                loc'[p].secret = SecretByName(secrets', req'[p].path[3])
       /\ \A p \in Procs :
             (pc[p] \in UnderRowLock /\ pc'[p] = "idle") =>
                \/ resp'.status = 201
                \/ resp'.error = "Conflict"
                   /\ req[p].payload.version_tag \in TagsOf(req[p].path[3])
       /\ \A s \in secrets' :
             {TagV1, TagV2} \subseteq {w.tag : w \in {x \in written' : x.name = s.name}} =>
                {s.current_version, s.previous_version} = {Some(TagV1), Some(TagV2)}]_vars

\* One call is about to commit while the other, with another tag, waits for
\* the row lock.
C7_Witness ==
    \E p, q \in Procs :
        /\ pc[p] = "csv_commit" /\ pc[q] = "csv_lock"
        /\ req[p].path[3] = req[q].path[3]
        /\ req[p].payload.version_tag # req[q].payload.version_tag

\* C8: get_current_version on a proxied secret enters refresh exactly when
\* expire_at is null or now > expire_at; when now <= expire_at it returns the
\* stored current version's value and tag, calls no provider, writes nothing.
C8_RefreshIffExpired ==
    [][/\ \A p \in Procs :
             (pc[p] = "idle" /\ pc'[p] = "rf_fetch") =>
                LET s == Unwrap(SecretOf(req'[p]))
                IN  /\ IsSome(s.vault_connection_id)
                    /\ ~IsSome(s.expire_at) \/ now > Unwrap(s.expire_at)
       /\ (/\ Answered("SecretHandler::get_secret")'
           /\ pc' = pc
           /\ IsSome(SecretOf(resp'.req))
           /\ IsSome(Unwrap(SecretOf(resp'.req)).vault_connection_id))
             => LET s == Unwrap(SecretOf(resp'.req))
                IN  /\ IsSome(s.expire_at) /\ now <= Unwrap(s.expire_at)
                    /\ UNCHANGED <<db, written, tx, loc>>
                    /\ resp'.status = 200
                    /\ Some(resp'.version_tag) = s.current_version
                    /\ [name |-> s.name, tag |-> resp'.version_tag,
                        value |-> resp'.value] \in written]_vars

\* A read entered refresh because the secret had expired.
C8_Witness ==
    \E p \in Procs :
        /\ pc[p] = "rf_fetch"
        /\ IsSome(Unwrap(loc[p].secret).expire_at)
        /\ Unwrap(Unwrap(loc[p].secret).expire_at) < now

\* The sha256 of the committed current version of the secret named `name`.
CurrentSha(name) ==
    LET s == Unwrap(SecretByName(secrets, name))
    IN  IF ~IsSome(s.current_version) THEN None
        ELSE Unwrap(get_secret_version_by_tag(versions, name,
                                              Unwrap(s.current_version))).sha256sum

\* C9: a refresh that succeeds with an upstream value whose sha256 equals that
\* of the secret's current version creates no version and no DEK, leaves
\* current_version and previous_version as they were, sets the expire_at of
\* the secret and of that version to the expiry it computed, and returns the
\* secret's current_version as tag.
C9_SameHashRefreshTouchesCurrent ==
    [][\A p \in Procs :
          (/\ pc[p] = "rf_commit" /\ pc'[p] = "idle"
           /\ CurrentSha(Unwrap(loc[p].secret).name) = Some(sha256_hash(loc[p].value)))
            => LET name == Unwrap(loc[p].secret).name
                   before == Unwrap(SecretByName(secrets, name))
                   after == Unwrap(SecretByName(secrets', name))
               IN  /\ TagsIn(versions', name) = TagsOf(name)
                   /\ deks' = deks
                   /\ after.current_version = before.current_version
                   /\ after.previous_version = before.previous_version
                   /\ after.expire_at = loc[p].expire_at
                   /\ Unwrap(get_secret_version_by_tag(versions', name,
                          Unwrap(after.current_version))).expire_at = loc[p].expire_at
                   /\ Some(resp'.version_tag) = after.current_version]_vars

\* C10: a refresh that succeeds with an upstream value whose sha256 differs
\* from that of the secret's current version inserts exactly one version, with
\* the bump of the old current tag and the sha256 of the upstream value, sets
\* current_version to the new tag, previous_version to the old current tag and
\* expire_at to the expiry it computed, and returns the upstream value with
\* the new tag.
C10_ChangedHashRefreshMints ==
    [][\A p \in Procs :
          (/\ pc[p] = "rf_commit" /\ pc'[p] = "idle"
           /\ CurrentSha(Unwrap(loc[p].secret).name) # Some(sha256_hash(loc[p].value)))
            => LET name == Unwrap(loc[p].secret).name
                   before == Unwrap(SecretByName(secrets, name))
                   after == Unwrap(SecretByName(secrets', name))
                   new_tag == get_next_version_tag(Unwrap(before.current_version),
                                                   overflowChecks).tag
               IN  /\ TagsIn(versions', name) = TagsOf(name) \cup {new_tag}
                   /\ new_tag \notin TagsOf(name)
                   /\ Unwrap(get_secret_version_by_tag(versions', name, new_tag)).sha256sum
                         = Some(sha256_hash(loc[p].value))
                   /\ after.current_version = Some(new_tag)
                   /\ after.previous_version = before.current_version
                   /\ after.expire_at = loc[p].expire_at
                   /\ resp'.value = loc[p].value
                   /\ resp'.version_tag = new_tag]_vars

\* The plaintext committed under (name, tag), or "" when there is none.
WrittenValue(name, tag) ==
    LET ws == {w \in written : w.name = name /\ w.tag = tag}
    IN  IF ws = {} THEN "" ELSE (CHOOSE w \in ws : TRUE).value

\* C11: the first get_current_version of a proxied secret after its creation
\* (the Secret row it read has never been refreshed), within the connection's
\* ttl (the default 3600 s), returns the value and the tag the secret was
\* created with and inserts no SecretVersion, whatever the upstream holds.
C11_FirstReadServesCreatedValue ==
    [][\A p \in Procs :
          (/\ pc[p] # "idle" /\ pc'[p] = "idle"
           /\ HandlerOf(req[p]) = "SecretHandler::get_secret"
           /\ IsSome(loc[p].secret)
           /\ ~IsSome(Unwrap(loc[p].secret).expire_at)
           /\ \A c \in connections : ~IsSome(c.ttl))
            => LET secret == Unwrap(loc[p].secret)
               IN  /\ resp'.status = 200
                   /\ Some(resp'.version_tag) = secret.current_version
                   /\ resp'.value = WrittenValue(secret.name, resp'.version_tag)
                   /\ TagsIn(versions', secret.name) = TagsOf(secret.name)]_vars

\* The positions of a refresh that mints a new version.
Minting == {"rf_insert", "rf_update", "rf_commit"}
\* Task p is in the minting branch of a refresh (its transaction touches no
\* existing version).
IsMinting(p) == pc[p] \in Minting /\ tx[p].touched = {}

\* C12: of the refreshes that read the same expired proxied secret and each
\* try to mint, only one at a time is past the INSERT of the new version, all
\* of them mint the same tag, the one that commits inserts exactly that
\* version, and a loser is answered Conflict (409) only after the winner has
\* committed the tag, with none of its DEK, version, pointer or expiry writes
\* visible.
C12_MintRaceOneCommitsOthersConflict ==
    [][/\ \A p, q \in Procs :
             (p # q /\ IsMinting(p) /\ IsMinting(q) /\ loc[p].secret = loc[q].secret) =>
                /\ loc[p].new_tag = loc[q].new_tag
                /\ ~(pc[p] \in {"rf_update", "rf_commit"} /\ pc[q] \in {"rf_update", "rf_commit"})
       /\ \A p \in Procs :
             (pc[p] = "rf_insert" /\ pc'[p] = "idle") =>
                /\ resp'.error = "Conflict" /\ resp'.status = 409
                /\ loc[p].new_tag \in TagsOf(Unwrap(loc[p].secret).name)
                /\ UNCHANGED <<deks, versions, secrets, connections>>
                /\ tx[p].deks # {} /\ tx[p].deks \cap deks' = {}
       /\ \A p \in Procs :
             (IsMinting(p) /\ pc[p] = "rf_commit" /\ pc'[p] = "idle") =>
                /\ resp'.status = 200
                /\ TagsIn(versions', Unwrap(loc[p].secret).name)
                      = TagsOf(Unwrap(loc[p].secret).name) \cup {loc[p].new_tag}
                /\ loc[p].new_tag \notin TagsOf(Unwrap(loc[p].secret).name)
       /\ \A v, w \in versions' :
             (v.secret_id = w.secret_id /\ v.version_tag = w.version_tag) => v = w]_vars

\* A refresh lost the race: it was answered Conflict while the tag it tried
\* to mint is committed.
C12_Witness ==
    /\ Answered("SecretHandler::get_secret")
    /\ resp.error = "Conflict"
    /\ <<"v", "-", "1">> \in TagsOf(resp.req.path[3])

\* The positions of a task inside refresh_proxied_secret after the fetch.
Refreshing == {"rf_touch_version", "rf_touch_secret", "rf_insert", "rf_update", "rf_commit"}

\* The upstream value task p fetched has the sha256 of the version that both
\* the Secret row it read and the committed row name as current.
FetchedCurrentContent(p) ==
    LET snapshot == Unwrap(loc[p].secret)
        committed == SecretByName(secrets, snapshot.name)
    IN  /\ IsSome(committed)
        /\ Unwrap(committed).current_version = snapshot.current_version
        /\ CurrentSha(snapshot.name) = Some(sha256_hash(loc[p].value))

\* C13: refreshes of one proxied secret whose upstream value is the content
\* of the stored current version all succeed with the current tag: none is
\* answered Conflict or any other error, none draws a DEK id, and no
\* SecretVersion or DEK row is created.
C13_SameHashRaceAllSucceed ==
    [][\A p \in Procs :
          /\ (pc[p] \in Refreshing /\ pc'[p] = "idle" /\ FetchedCurrentContent(p)) =>
                LET snapshot == Unwrap(loc[p].secret)
                IN  /\ resp'.error = "Ok" /\ resp'.status = 200
                    /\ Some(resp'.version_tag) = snapshot.current_version
                    /\ resp'.value = loc[p].value
                    /\ TagsIn(versions', snapshot.name) = TagsOf(snapshot.name)
                    /\ deks' = deks
                    /\ tx[p].deks = {} /\ tx[p].versions = {}
          /\ (pc[p] \in {"rf_touch_version", "rf_touch_secret"} /\ pc'[p] # pc[p]) =>
                /\ pc'[p] \in {"rf_touch_secret", "rf_commit"}
                /\ nextDekId' = nextDekId]_vars

\* Two refreshes of the same secret are in the same-hash branch at once: one
\* is about to commit, the other waits for the version row.
C13_Witness ==
    \E p, q \in Procs :
        /\ p # q
        /\ pc[p] = "rf_commit" /\ tx[p].touched # {}
        /\ pc[q] = "rf_touch_version"
        /\ loc[p].secret = loc[q].secret

\* The tables of the database a reader sees.
Tables == <<deks, secrets, versions, connections>>
\* Where a write operation is about to call tx.commit().
CommitLabels == {"cs_commit", "rf_commit", "csv_commit", "cc_commit", "cu_commit"}
\* The ciphertext rows transaction t has written under a DEK of its own.
Ciphertexts(t) ==
    {row \in t.versions \cup t.connections : \E d \in t.deks : d.id = row.dek_id}
\* No DEK of t, and no ciphertext row under one, is in the given tables.
Invisible(t, dek_table, version_table, connection_table) ==
    /\ t.deks \cap dek_table = {}
    /\ Ciphertexts(t) \cap (version_table \cup connection_table) = {}

\* C14: each write operation (create_secret, create_secret_version, the minting
\* refresh, create and update of a vault connection) is atomic. The tables
\* change only in the step that commits a transaction (or in the DELETE of a
\* connection); a task that ends with an error, or is cancelled before its
\* commit, leaves every table as it was and none of its DEK, version, secret
\* or connection rows visible; a commit makes the DEK, the ciphertext row that
\* names it and the secret or connection row visible in the same step, none
\* of them having been visible before.
C14_WritesAreAtomic ==
    [][/\ Tables' # Tables =>
            \E p \in Procs :
                /\ pc'[p] = "idle"
                /\ \/ pc[p] \in CommitLabels /\ resp'.status \in {200, 201}
                   \/ pc[p] = "idle" /\ resp'.status = 204
       /\ \A p \in Procs :
            /\ (pc[p] # "idle" /\ pc'[p] = "idle" /\ resp'.status \notin {200, 201}) =>
                  /\ Tables' = Tables
                  /\ Invisible(tx[p], deks', versions', connections')
            /\ (pc[p] \in CommitLabels /\ pc'[p] = "idle" /\ resp'.status \in {200, 201}) =>
                  /\ Invisible(tx[p], deks, versions, connections)
                  /\ tx[p].deks \subseteq deks'
                  /\ tx[p].versions \subseteq versions'
                  /\ tx[p].secrets \subseteq secrets'
                  /\ tx[p].connections \subseteq connections'
                  /\ \A d \in tx[p].deks : \E row \in Ciphertexts(tx[p]) : row.dek_id = d.id
            /\ pc'[p] # "idle" => Invisible(tx'[p], deks', versions', connections')
      ]_vars

\* An update has committed a rotated config under a new DEK, after an
\* earlier operation drew a DEK id and was rolled back.
C14_Witness ==
    /\ resp # NoResp /\ resp.req.method = "PATCH" /\ resp.status = 200
    /\ \E c \in connections : c.dek_id # 1 /\ \E d \in deks : d.id = c.dek_id
    /\ nextDekId > Cardinality(deks) + 1

\* C15: in every committed state reachable by any sequence of secret and
\* vault-connection operations (connection update and delete included),
\* every data_encryption_keys row is named by the dek_id of a persisted
\* ciphertext row (a secret version or a vault connection).
C15_EveryDekHasReferent ==
    \A d \in deks : \E row \in versions \cup connections : row.dek_id = d.id

\* The tag whose trailing decimal run (if any) is replaced by its value plus
\* one, in decimal notation of any length; the tag followed by -1 otherwise.
TrailingRunPlusOne(tag) ==
    LET start == EndingNumberStart(tag, Len(tag))
    IN  IF start > Len(tag) THEN tag \o <<"-", "1">>
        ELSE SubSeq(tag, 1, start - 1)
                \o DecIncrement(StripZeros(SubSeq(tag, start, Len(tag))))

\* C16: get_next_version_tag is a function of the current tag only: a tag that
\* ends in a run of decimal digits gives the tag with that run replaced by
\* its value plus one, any other tag gives the tag followed by -1; v gives
\* v-1, v-7 gives v-8, api_key.3 gives api_key.4, abc gives abc-1 and v1beta2
\* gives v1beta3.
C16_NextTagIsTrailingRunPlusOne ==
    /\ bump.tag # <<>> =>
          /\ ~bump.next.panic
          /\ bump.next.tag = TrailingRunPlusOne(bump.tag)
    /\ bump.tag = <<"v">> => bump.next.tag = <<"v", "-", "1">>
    /\ bump.tag = <<"v", "-", "7">> => bump.next.tag = <<"v", "-", "8">>
    /\ bump.tag = <<"a", "p", "i", "_", "k", "e", "y", ".", "3">> =>
          bump.next.tag = <<"a", "p", "i", "_", "k", "e", "y", ".", "4">>
    /\ bump.tag = <<"a", "b", "c">> => bump.next.tag = <<"a", "b", "c", "-", "1">>
    /\ bump.tag = <<"v", "1", "b", "e", "t", "a", "2">> =>
          bump.next.tag = <<"v", "1", "b", "e", "t", "a", "3">>

\* Where a creation is about to run its INSERT, and where it has run it.
InsertLabels == {"cs_insert", "cc_insert", "csv_insert"}
InsertedLabels == {"cs_commit", "cc_commit", "csv_update", "csv_commit"}
\* The unique key the creation served by task p inserts.
InsertKey(p) ==
    CASE pc[p] \in {"cs_insert", "cs_commit"} -> SecretRow(req[p].payload.name)
      [] pc[p] \in {"cc_insert", "cc_commit"} -> ConnRow(req[p].payload.public_id)
      [] pc[p] \in {"csv_insert", "csv_update", "csv_commit"} ->
            VersionRow(Unwrap(loc[p].secret).name, req[p].payload.version_tag)
      [] OTHER -> [kind |-> "", name |-> "", tag |-> <<>>]
\* Whether a committed row holds the key.
KeyExists(key) ==
    CASE key.kind = "secret" -> SecretNameTaken(key.name)
      [] key.kind = "connection" -> ConnectionKeyTaken(key.name)
      [] key.kind = "version" -> VersionKeyTaken(key.name, key.tag)
      [] OTHER -> FALSE

\* C17: create_secret with a name that exists, create_vault_connection with a
\* public_id that exists and create_secret_version with a tag that exists for
\* the secret fail with Conflict (409) and leave every stored row, the DEK
\* table included, unchanged; of two concurrent creations with the same key
\* exactly one succeeds: a creation whose INSERT finds the key committed ends
\* there with Conflict, an INSERT answers an error only in that case, two
\* creations are never both past the INSERT of one key, and a creation
\* commits only a key that did not exist.
C17_DuplicateKeyConflicts ==
    [][\A p \in Procs :
        /\ (pc[p] \in InsertLabels /\ KeyExists(InsertKey(p)) /\ pc'[p] # pc[p]) =>
              /\ pc'[p] = "idle"
              /\ Tables' = Tables
              /\ resp' = NoResp \/ (resp'.error = "Conflict" /\ resp'.status = 409)
        /\ (pc[p] \in InsertLabels /\ pc'[p] = "idle" /\ resp' # NoResp) =>
              KeyExists(InsertKey(p)) /\ resp'.status = 409
        /\ (pc[p] \in {"cs_commit", "cc_commit", "csv_commit"} /\ pc'[p] = "idle"
                /\ resp' # NoResp) =>
              /\ resp'.status = 201
              /\ ~KeyExists(InsertKey(p))
              /\ \A q \in Procs \ {p} :
                    pc[q] \in InsertLabels \cup InsertedLabels /\ InsertKey(q) = InsertKey(p)
                        => pc[q] \in InsertLabels /\ pc'[q] = pc[q]
      ]_vars

\* A second creation of vault connection conn-0001 has been answered 409, its
\* DEK rolled back.
C17_Witness ==
    /\ resp # NoResp /\ resp.status = 409
    /\ HandlerOf(resp.req) = "ConnectionHandler::create_vault_connection"
    /\ nextDekId > 2 /\ \A d \in deks : d.id < nextDekId - 1

\* The entity request r is addressed to: the secret {name} (and, for a
\* version read, its version {tag}) or the vault connection {public_id}.
AddressedEntityMissing(r) ==
    IF r.path[2] = "secrets"
    THEN \/ ~IsSome(SecretByName(secrets, r.path[3]))
         \/ Len(r.path) = 5 /\ r.path[5] \notin TagsOf(r.path[3])
    ELSE ~IsSome(ConnectionBy("public_id", r.path[3]))
\* The path parameters of r are well formed.
WellFormedPath(r) ==
    IF r.path[2] = "secrets"
    THEN get_secret_name_regex(r.path[3])
            /\ (Len(r.path) = 5 => get_version_tag_regex(r.path[5]))
    ELSE get_public_id_regex(r.path[3])

\* C18: every operation addressed to a missing entity yields NotFound (404)
\* and changes no state: get_current_version, get_version and
\* create_secret_version on an unknown secret name, get_version on an unknown
\* tag of an existing secret, and read, update and delete of an unknown
\* vault-connection public_id. (A request is taken at the step that looks the
\* entity up: the reads and the delete in their one step, the version write
\* at its SELECT ... FOR UPDATE, the update at its UPDATE statement.)
C18_MissingEntityNotFound ==
    [][\A p \in Procs :
        LET r == IF pc[p] = "idle" THEN resp'.req ELSE req[p]
        IN  (/\ pc'[p] = "idle" /\ resp' # NoResp
             /\ \A q \in Procs \ {p} : pc'[q] = pc[q]
             /\ \/ pc[p] = "idle" /\ r.method \in {"GET", "DELETE"}
                \/ pc[p] \in {"csv_lock", "cu_update"}
             /\ Len(r.path) >= 3 /\ WellFormedPath(r)
             /\ AddressedEntityMissing(r)) =>
                /\ resp'.error = "NotFoundError" /\ resp'.status = 404
                /\ Tables' = Tables
      ]_vars

\* The gate has read the body of request r: both headers are there and
\* readable, the timestamp is an integer inside the window, and the signature
\* header is 64 bytes of hex.
ReadsBody(r, now_ms, overflow_checks) ==
    /\ r.x_signature.kind = "sig"
    /\ r.x_timestamp.kind = "text"
    /\ IsSome(ParseI64(r.x_timestamp.text))
    /\ RecvWindow(now_ms, Unwrap(ParseI64(r.x_timestamp.text)), overflow_checks) = "inside"
    /\ r.method \notin {"GET", "DELETE"}

\* C19: a request that fails the gate because its X-Signature or X-Timestamp
\* header is missing or malformed, because its timestamp is more than 5000 ms
\* from now (e.g. now - 10000 ms), or because its signature does not verify
\* is answered Unauthorized (401). (A request turned away for its body alone
\* is not among these.)
C19_GateFailuresUnauthorized ==
    (/\ gate.req # NoHttp
     /\ gate.out.result = "Reject"
     /\ ~(ReadsBody(gate.req, gate.now, overflowChecks)
            /\ gate.req.body.len > MAX_BODY_SIZE)) =>
        gate.out.error = "Unauthorized" /\ StatusOf(gate.out.error) = 401

\* C20: for a method other than GET and DELETE, a body longer than 262144
\* bytes is rejected with InvalidInput before the signature is verified
\* (whether or not it would verify) and never reaches a handler; a body of at
\* most 262144 bytes is read in full, is the body the digest is taken over,
\* and is handed unchanged to the handler.
C20_BodyCapBeforeVerification ==
    LET r == gate.req
    IN  (r # NoHttp /\ r.method \notin {"GET", "DELETE"}) =>
          /\ r.body.len > MAX_BODY_SIZE =>
                /\ ~gate.handled /\ gate.out.result # "Forward"
                /\ ReadsBody(r, gate.now, overflowChecks) =>
                      /\ gate.out.result = "Reject"
                      /\ gate.out.error = "InvalidInput"
                      /\ StatusOf(gate.out.error) = 400
          /\ (r.body.len <= MAX_BODY_SIZE /\ ReadsBody(r, gate.now, overflowChecks)) =>
                /\ gate.handled <=>
                      EcdsaVerify(AuthKey, SignedDigest(r.x_timestamp.text, r.path, r.body),
                                  r.x_signature)
                /\ gate.handled => gate.out.result = "Forward" /\ gate.out.body = r.body
                /\ ~gate.handled => gate.out.error = "Unauthorized"

\* A POST with a body of one byte over the cap, signed by the configured key
\* over that very body, was turned away with InvalidInput.
C20_Witness ==
    /\ gate.req.method = "POST" /\ gate.req.body.len = MAX_BODY_SIZE + 1
    /\ EcdsaVerify(AuthKey, SignedDigest(gate.req.x_timestamp.text, gate.req.path,
                                         gate.req.body), gate.req.x_signature)
    /\ gate.out.result = "Reject" /\ gate.out.error = "InvalidInput"

\* The body the gate takes a request to have: none for GET and DELETE.
EffectiveBody(r) == IF r.method \in {"GET", "DELETE"} THEN EmptyBody ELSE r.body
\* Two requests with the same headers, path and effective body.
SameSignedParts(r1, r2) ==
    /\ r1.x_timestamp = r2.x_timestamp
    /\ r1.x_signature = r2.x_signature
    /\ r1.path = r2.path
    /\ EffectiveBody(r1) = EffectiveBody(r2)

\* C21: the gate's decision is a function of (X-Timestamp, X-Signature, URI
\* path, effective body, now) only: any request that agrees with the one just
\* decided on these, whatever its method and query string, gets the same
\* decision at the same instant (and, forwarded, the same body).
C21_DecisionIgnoresMethodAndQuery ==
    gate.req # NoHttp =>
        \A r2 \in GateRequests :
            SameSignedParts(gate.req, r2) =>
                LET out2 == verify_signature(r2, gate.now, overflowChecks)
                IN  /\ out2.result = gate.out.result
                    /\ out2.body = gate.out.body

\* A DELETE with a query string was forwarded on a signature that a GET of
\* the same path without a query string carries as well.
C21_Witness ==
    /\ gate.handled /\ gate.req.method = "DELETE" /\ gate.req.query = "a=1"
    /\ \E r2 \in GateRequests :
          /\ SameSignedParts(gate.req, r2)
          /\ r2.method = "GET" /\ r2.query = ""
          /\ verify_signature(r2, gate.now, overflowChecks).result = "Forward"

\* Task p takes a step of update_vault_connection that ends the call with a
\* response, or starts it: the request the step serves.
UpdateCall(p) == IF pc[p] = "idle" THEN (IF pc'[p] = "idle" THEN resp'.req ELSE req'[p])
                 ELSE req[p]
\* Exactly one of config and integration_type is in the payload.
OneOfConfigAndType(payload) == IsSome(payload.config) # IsSome(payload.integration_type)
\* Neither of them is.
NeitherConfigNorType(payload) == ~IsSome(payload.config) /\ ~IsSome(payload.integration_type)

\* C22: update_vault_connection with exactly one of config and
\* integration_type present fails with InvalidInput (400) and leaves the
\* connection row and the DEK table unchanged (no DEK id is drawn either);
\* with neither present, the commit changes the ttl of that row and nothing
\* else in any table.
C22_UpdateNeedsBothOrNeither ==
    [][\A p \in Procs :
        /\ (pc[p] = "idle" /\ (pc'[p] # "idle" \/ resp' # NoResp)) =>
              LET r == UpdateCall(p)
              IN  (r.method = "PATCH" /\ (pc'[p] # "idle" \/ resp'.req = r)
                     /\ (\A q \in Procs \ {p} : pc'[q] = pc[q])
                     /\ OneOfConfigAndType(r.payload)) =>
                        /\ pc'[p] = "idle"
                        /\ resp'.error = "InvalidInput" /\ resp'.status = 400
                        /\ Tables' = Tables /\ nextDekId' = nextDekId
        /\ (pc[p] = "cu_commit" /\ pc'[p] = "idle" /\ resp' # NoResp
                /\ NeitherConfigNorType(req[p].payload)) =>
              /\ resp'.status = 200
              /\ deks' = deks /\ secrets' = secrets /\ versions' = versions
              /\ connections' =
                    {IF c.public_id = req[p].path[3]
                     THEN [c EXCEPT !.ttl = req[p].payload.ttl] ELSE c : c \in connections}
      ]_vars

\* An update carrying a config and no integration type was answered 400, and
\* an update carrying neither has set the ttl of conn-0001 to 60.
C22_Witness ==
    /\ resp # NoResp /\ resp.req.method = "PATCH" /\ resp.status = 400
    /\ IsSome(resp.req.payload.config) /\ ~IsSome(resp.req.payload.integration_type)
    /\ \E c \in connections : c.public_id = "conn-0001" /\ c.ttl = Some(60) /\ c.dek_id = 1

\* The committed vault_connections rows of a public id.
RowsOf(table, public_id) == {c \in table : c.public_id = public_id}

\* C23: after update_vault_connection succeeds with both a valid config and an
\* integration_type, a read of that public_id returns the new plaintext
\* config, the new integration_type and sha256(new config), public_id and the
\* internal id being unchanged: the commit leaves one row of that public_id,
\* with the old id, whose decryption is the new config; and a read answers
\* with the decryption of the committed row.
C23_ReadAfterRotateReturnsNewConfig ==
    [][\A p \in Procs :
        /\ (pc[p] = "cu_commit" /\ pc'[p] = "idle" /\ resp' # NoResp
                /\ ConfigChange(req[p].payload) = "rotate") =>
              LET public_id == req[p].path[3]
                  config == Unwrap(req[p].payload.config)
              IN  /\ resp'.status = 200
                  /\ Cardinality(RowsOf(connections', public_id)) = 1
                  /\ \A new \in RowsOf(connections', public_id) :
                        /\ \E old \in RowsOf(connections, public_id) : new.id = old.id
                        /\ new.integration_type = Unwrap(req[p].payload.integration_type)
                        /\ new.sha256sum = sha256_hash(config)
                        /\ decrypt(deks', new.dek_id, new.encrypted_config)
                              = [error |-> "Ok", value |-> config]
        /\ (pc[p] = "idle" /\ pc'[p] = "idle" /\ resp' # NoResp /\ resp'.req.method = "GET"
                /\ resp'.status = 200 /\ resp'.req.path[2] = "vault-connections") =>
              \E c \in RowsOf(connections, resp'.req.path[3]) :
                  decrypt(deks, c.dek_id, c.encrypted_config)
                      = [error |-> "Ok", value |-> resp'.value]
      ]_vars

\* A read of conn-0001 has returned the rotated config, the row keeping the
\* id it was provisioned with.
C23_Witness ==
    /\ resp # NoResp /\ resp.req.method = "GET" /\ resp.status = 200 /\ resp.value = "cf3"
    /\ \E c \in connections : c.public_id = "conn-0001" /\ c.id = 1 /\ c.dek_id # 1

\* Task p starts create_vault_connection, or update_vault_connection with a
\* config and its integration type, on a payload that passes the request
\* validation: the request.
ValidatedCall(r) ==
    \/ /\ r.method = "POST" /\ r.path = <<"v1", "vault-connections">>
       /\ ValidCreateVaultConnectionRequest(r.payload)
    \/ /\ r.method = "PATCH" /\ get_public_id_regex(r.path[3])
       /\ ValidUpdateVaultConnectionRequest(r.payload)
       /\ ConfigChange(r.payload) = "rotate"

\* C24: create_vault_connection and update_vault_connection run the provider
\* factory's validate before any write. The first step of either operation
\* ends the call with InvalidInput (400), no table changed and no DEK id
\* drawn (no data key requested), or goes on to the INSERT or UPDATE with a
\* DEK drawn; it goes on only for a registered integration type, and it can
\* end with InvalidInput for a registered one (the provider's verdict).
C24_ValidateBeforeAnyWrite ==
    [][\A p \in Procs :
        (pc[p] = "idle" /\ (pc'[p] # "idle" \/ resp' # NoResp)
            /\ (\A q \in Procs \ {p} : pc'[q] = pc[q])
            /\ ValidatedCall(UpdateCall(p))) =>
          LET r == UpdateCall(p)
          IN  /\ Tables' = Tables
              /\ \/ /\ pc'[p] = "idle"
                    /\ resp'.error = "InvalidInput" /\ resp'.status = 400
                    /\ nextDekId' = nextDekId
                 \/ /\ pc'[p] \in {"cc_insert", "cu_update"}
                    /\ Unwrap(r.payload.integration_type) \in ProviderFactories
                    /\ nextDekId' = nextDekId + 1
                    /\ Cardinality(tx'[p].deks) = 1
      ]_vars

\* A valid creation with a registered integration type was answered 400 on
\* the provider's verdict, the tables and the DEK id sequence being as at boot.
C24_Witness ==
    /\ resp # NoResp /\ resp.status = 400 /\ resp.error = "InvalidInput"
    /\ resp.req.method = "POST"
    /\ resp.req.payload.integration_type = Some("aws_secrets_manager")
    /\ ValidCreateVaultConnectionRequest(resp.req.payload)
    /\ nextDekId = 2 /\ Cardinality(deks) = 1 /\ Cardinality(connections) = 1

\* C25: the connection UPDATE writes ttl exactly as given (a payload without
\* ttl stores null), leaves encrypted_config, sha256sum, dek_id and
\* integration_type as they were when no new value is supplied, and never
\* changes public_id and id; the commit publishes exactly that row. (The
\* created_at column, which the statement does not name, is not modelled.)
C25_UpdateWritesTtlVerbatim ==
    [][\A p \in Procs :
        /\ (pc[p] = "cu_update" /\ pc'[p] = "cu_commit") =>
              \E old \in RowsOf(connections, req[p].path[3]) :
              \E new \in tx'[p].connections :
                  /\ tx'[p].connections = {new}
                  /\ new.ttl = req[p].payload.ttl
                  /\ new.public_id = old.public_id /\ new.id = old.id
                  /\ NeitherConfigNorType(req[p].payload) =>
                        /\ new.encrypted_config = old.encrypted_config
                        /\ new.sha256sum = old.sha256sum
                        /\ new.dek_id = old.dek_id
                        /\ new.integration_type = old.integration_type
        /\ (pc[p] = "cu_commit" /\ pc'[p] = "idle" /\ resp' # NoResp) =>
              /\ RowsOf(connections', req[p].path[3]) = tx[p].connections
              /\ \A c \in connections : c.public_id # req[p].path[3] => c \in connections'
      ]_vars

\* An update without ttl, config and integration type has run its UPDATE on a
\* row whose committed ttl is not null: the row it is about to commit has a
\* null ttl and the committed row's DEK.
C25_Witness ==
    \E p \in Procs :
        /\ pc[p] = "cu_commit"
        /\ req[p].payload.ttl = None /\ NeitherConfigNorType(req[p].payload)
        /\ \E old \in connections : \E new \in tx[p].connections :
              /\ old.public_id = new.public_id
              /\ old.ttl # None /\ new.ttl = None /\ new.dek_id = old.dek_id

\* The ids of the DEK rows of a table.
DekIds(dek_table) == {d.id : d \in dek_table}
\* decrypt returns the plaintext whose digest encrypt recorded next to the ciphertext.
DecryptsToDigest(dek_table, dek_id, encrypted_value, sha256sum) ==
    LET d == decrypt(dek_table, dek_id, encrypted_value)
    IN  d.error = "Ok" /\ sha256_hash(d.value) = sha256sum

ExpiredProxied(secret, t) ==
    /\ IsSome(secret.vault_connection_id)
    /\ IsSome(secret.expire_at) /\ t > Unwrap(secret.expire_at)

\* C27: get_version(name, tag) never triggers a refresh. For local and proxied
\* secrets, expired or not, the call is answered in the step that starts it:
\* no task enters a refresh (no provider call), no table, DEK id, expire_at or
\* version pointer changes, and the answer is the value committed under that
\* tag of that secret (404 when there is none).
C27_GetVersionNeverRefreshes ==
    [][\A p \in Procs :
        (/\ pc[p] = "idle" /\ resp' # NoResp /\ resp'.req.auth = "valid"
         /\ (\A q \in Procs : pc'[q] = pc[q])
         /\ HandlerOf(resp'.req) = "SecretHandler::get_secret_version") =>
           LET name == resp'.req.path[3]
               tag == resp'.req.path[5]
           IN  /\ Tables' = Tables /\ nextDekId' = nextDekId /\ written' = written
               /\ loc' = loc /\ tx' = tx
               /\ IF \E w \in written : w.name = name /\ w.tag = tag
                  THEN /\ resp'.status = 200
                       /\ resp'.value = WrittenValue(name, tag)
                       /\ resp'.version_tag = tag
                  ELSE resp'.status \in {400, 404}
      ]_vars

\* get_version has answered with the value of a tag of a proxied secret whose
\* expire_at has passed; the tag is not the current one.
C27_Witness ==
    /\ resp # NoResp /\ resp.req.auth = "valid" /\ resp.status = 200
    /\ HandlerOf(resp.req) = "SecretHandler::get_secret_version"
    /\ \E s \in secrets :
          /\ s.name = resp.req.path[3] /\ ExpiredProxied(s, now)
          /\ s.current_version # Some(resp.req.path[5])
    /\ resp.value = WrittenValue(resp.req.path[3], resp.req.path[5])

C29_WrittenTagsAreValid ==
    /\ \A v \in versions : ValidVersionTag(v.version_tag)
    /\ \A s \in secrets :
          /\ IsSome(s.current_version) => ValidVersionTag(Unwrap(s.current_version))
          /\ IsSome(s.previous_version) => ValidVersionTag(Unwrap(s.previous_version))

\* Where a task is inside refresh_proxied_secret.
RefreshLabels ==
    {"rf_fetch", "rf_touch_version", "rf_touch_secret", "rf_insert", "rf_update", "rf_commit"}
\* Where a task is inside create_secret_version past its 405 check.
VersionWriteLabels == {"csv_insert", "csv_update", "csv_commit"}

\* C30: a secret's regime is fixed at creation. The commit of create_secret
\* stores a vault_connection_id exactly when the request named a vault
\* connection; no step of create_secret_version, get_current_version, the
\* refresh or get_version changes the vault_connection_id of a committed
\* secret or removes the secret; a task is inside the refresh only for a
\* proxied secret and writes an explicit version only to a local one.
C30_RegimeFixedAtCreation ==
    [][/\ \A s \in secrets : \E t \in secrets' :
             t.name = s.name /\ t.vault_connection_id = s.vault_connection_id
       /\ \A p \in Procs :
             /\ (pc[p] = "cs_commit" /\ pc'[p] = "idle" /\ resp'.status = 201) =>
                   \E t \in secrets' \ secrets :
                       /\ t.name = req[p].payload.name
                       /\ secrets' = secrets \cup {t}
                       /\ IsSome(t.vault_connection_id)
                             <=> IsSome(req[p].payload.vault_connection)
             /\ pc'[p] \in RefreshLabels =>
                   \E t \in secrets' : t.name = req'[p].path[3] /\ IsSome(t.vault_connection_id)
             /\ pc'[p] \in VersionWriteLabels =>
                   \E t \in secrets' : t.name = req'[p].path[3] /\ ~IsSome(t.vault_connection_id)
      ]_vars

\* A version write on a proxied secret that a refresh has already moved to a
\* minted version was answered 405, the secret still bound to its connection.
C30_Witness ==
    /\ resp # NoResp /\ resp.status = 405
    /\ HandlerOf(resp.req) = "SecretHandler::create_secret_version"
    /\ \E s \in secrets :
          /\ s.name = resp.req.path[3]
          /\ s.vault_connection_id = Some(1) /\ IsSome(s.previous_version)

\* Version row w is version row v in every column but expire_at.
SameButExpiry(v, w) == w = [v EXCEPT !.expire_at = w.expire_at]

\* C31: a committed SecretVersion row is never removed, and its secret_id,
\* version_tag, sha256sum, encrypted value, dek_id and deleted flag never
\* change. In every step each committed row is still there with those
\* columns; its expire_at changes only in the commit of a refresh that found
\* the content unchanged (it inserted no version and touched that row), and
\* becomes the expire_at that refresh computed.
C31_VersionRowsImmutable ==
    [][\A v \in versions :
          \E w \in versions' :
              /\ SameButExpiry(v, w)
              /\ w.expire_at # v.expire_at =>
                    \E p \in Procs :
                        /\ pc[p] = "rf_commit" /\ pc'[p] = "idle"
                        /\ tx[p].versions = {}
                        /\ \E t \in tx[p].touched :
                              /\ t.secret_id = v.secret_id /\ t.version_tag = v.version_tag
                              /\ w.expire_at = Some(t.expire_at)
                        /\ resp'.status = 200 /\ resp'.version_tag = v.version_tag
      ]_vars

\* A refresh that found the content unchanged has committed: a version row
\* carries an expire_at, and the read was answered with that version's tag.
C31_Witness ==
    /\ resp # NoResp /\ resp.status = 200
    /\ HandlerOf(resp.req) = "SecretHandler::get_secret"
    /\ \E v \in versions :
          /\ v.secret_id = resp.req.path[3] /\ v.version_tag = resp.version_tag
          /\ IsSome(v.expire_at) /\ ~v.deleted

\* C32: on every exit path of encrypt and decrypt the plaintext data key has
\* been overwritten before the function returns, and plaintext secret values
\* and configs are held only in containers that are wiped on release: no
\* released buffer still holds a data key or a plaintext.
C32_NothingLeftInReleasedMemory ==
    \A b \in heap : b.kind \notin {"data_key", "plaintext"}

\* The ttl of the committed connection with the given id, in seconds, with
\* the default for a null ttl.
TtlSeconds(vc_id) ==
    LET c == CHOOSE x \in connections : x.id = vc_id
    IN  IF IsSome(c.ttl) THEN Unwrap(c.ttl) ELSE 3600

\* C33: every refresh that commits sets the secret's expire_at to the time of
\* that refresh plus the bound connection's ttl seconds as read during that
\* refresh, or plus 3600 when that ttl is null. The refresh computes it so
\* when it enters update_secret_from_provider, and its commit stores exactly
\* that in the secret row; with a ttl <= 0 the stored expire_at is not after
\* the time of the commit, and a get_current_version at any later time
\* refreshes again.
C33_ExpireAtIsRefreshTimePlusTtl ==
    [][\A p \in Procs :
        /\ (pc[p] = "rf_fetch" /\ pc'[p] \in {"rf_touch_version", "rf_insert"}) =>
              /\ \E c \in connections : c.id = Unwrap(loc[p].vc_id)
              /\ loc'[p].expire_at = Some(now + TtlSeconds(Unwrap(loc[p].vc_id)))
              /\ loc'[p].ttl = (CHOOSE c \in connections : c.id = Unwrap(loc[p].vc_id)).ttl
        /\ (pc[p] = "rf_commit" /\ pc'[p] = "idle" /\ resp'.status = 200) =>
              \E s \in secrets' :
                  /\ s.name = req[p].path[3]
                  /\ s.expire_at = loc[p].expire_at
                  /\ (IsSome(loc[p].ttl) /\ Unwrap(loc[p].ttl) <= 0) =>
                        Unwrap(s.expire_at) <= now
        /\ (pc[p] = "idle" /\ (pc'[p] # "idle" \/ resp' # NoResp)
                /\ (\A q \in Procs \ {p} : pc'[q] = pc[q])
                /\ HandlerOf(UpdateCall(p)) = "SecretHandler::get_secret"
                /\ Admit(UpdateCall(p), NowMs, overflowChecks).result = "Forward") =>
              \A s \in secrets :
                  (/\ s.name = UpdateCall(p).path[3]
                   /\ IsSome(s.vault_connection_id) /\ IsSome(s.expire_at)
                   /\ now > Unwrap(s.expire_at)) => pc'[p] = "rf_fetch"
      ]_vars

\* A refresh at time 1 under a ttl of 0 has committed: the read was answered
\* and the secret's expire_at is 1.
C33_Witness ==
    /\ resp # NoResp /\ resp.status = 200 /\ now = 1
    /\ HandlerOf(resp.req) = "SecretHandler::get_secret"
    /\ \E s \in secrets :
          /\ s.name = resp.req.path[3] /\ s.expire_at = Some(1)
          /\ \E c \in connections : Some(c.id) = s.vault_connection_id /\ c.ttl = Some(0)

\* C34: after any interleaving of refreshes of one proxied secret, when a
\* refresh commits, the plaintext of the secret's current SecretVersion is the
\* upstream value that refresh fetched and the tag it returns is the secret's
\* current_version in the state it committed; a refresh that touched a version
\* extended the expiry of the version that is current in that state.
C34_CommittedRefreshIsCurrent ==
    [][\A p \in Procs :
          (pc[p] = "rf_commit" /\ pc'[p] = "idle" /\ resp'.status = 200) =>
             \E s \in secrets' :
                 /\ s.name = Unwrap(loc[p].secret).name
                 /\ s.current_version = Some(resp'.version_tag)
                 /\ \E w \in written' :
                       /\ w.name = s.name /\ Some(w.tag) = s.current_version
                       /\ w.value = loc[p].value
                 /\ \A t \in tx[p].touched : Some(t.version_tag) = s.current_version
      ]_vars

\* C35: every successful get_current_version response for a proxied secret
\* carries either the value fetched from upstream during that call or a stored
\* value whose secret expire_at was >= now when the Secret row was read (the
\* stored current version, with no table changed); a call whose connection
\* resolution, provider call or refresh transaction fails is answered with an
\* error and no value, and leaves every table as it was.
C35_FreshOrUnexpired ==
    [][\A p \in Procs :
        /\ (pc[p] = "rf_commit" /\ pc'[p] = "idle" /\ resp'.status = 200) =>
              resp'.value = loc[p].value
        /\ (pc[p] = "idle" /\ pc' = pc /\ resp' # NoResp /\ resp'.status = 200
                /\ HandlerOf(resp'.req) = "SecretHandler::get_secret") =>
              \A s \in secrets :
                  (s.name = resp'.req.path[3] /\ IsSome(s.vault_connection_id)) =>
                     /\ IsSome(s.expire_at) /\ Unwrap(s.expire_at) >= now
                     /\ Some(resp'.version_tag) = s.current_version
                     /\ resp'.value = WrittenValue(s.name, resp'.version_tag)
                     /\ Tables' = Tables
        /\ (pc[p] \in RefreshLabels /\ pc'[p] = "idle" /\ resp'.status # 200) =>
              /\ resp'.error # "Ok" /\ resp'.value = ""
              /\ Tables' = Tables
      ]_vars

\* A read of a proxied secret was answered with an error of the provider, the
\* secret and its one version being as they were created.
C35_Witness ==
    /\ resp # NoResp /\ resp.error = "KmsError" /\ resp.value = ""
    /\ HandlerOf(resp.req) = "SecretHandler::get_secret"
    /\ \E s \in secrets :
          /\ s.name = resp.req.path[3] /\ IsSome(s.vault_connection_id)
          /\ ~IsSome(s.expire_at) /\ ~IsSome(s.previous_version)
    /\ Cardinality(versions) = 1

\* A read of secret `name` was answered with Conflict.
LostRace(name) ==
    /\ resp # NoResp /\ resp.error = "Conflict"
    /\ HandlerOf(resp.req) = "SecretHandler::get_secret"
    /\ resp.req.path[3] = name
\* A read of secret `name` is answered with its stored current version.
ServedCurrent(name) ==
    /\ resp # NoResp /\ resp.status = 200
    /\ HandlerOf(resp.req) = "SecretHandler::get_secret"
    /\ resp.req.path[3] = name
    /\ \E s \in secrets : s.name = name /\ Some(resp.version_tag) = s.current_version
    /\ resp.value = WrittenValue(name, resp.version_tag)
\* The stored value of secret `name` has expired.
WindowClosed(name) ==
    \E s \in secrets : s.name = name /\ IsSome(s.expire_at) /\ now > Unwrap(s.expire_at)

GateClock == GateEpoch .. (GateEpoch + GateTicks)
\* The X-Timestamp of a request whose header parses as an i64.
TimestampOf(r) == Unwrap(ParseI64(r.x_timestamp.text))
\* The true distance |n - t|, in unbounded arithmetic.
Distance(n, t) == IF n >= t THEN n - t ELSE t - n

\* C37: the decision of the gate is a function of the request and the clock
\* alone, so a request the gate has accepted is accepted again at every clock
\* value within 5000 ms of its timestamp and is not accepted at any clock
\* value more than 5000 ms from its timestamp.
C37_NoReplayOutsideWindow ==
    gate.handled =>
        \A n \in GateClock :
            (verify_signature(gate.req, n, overflowChecks).result = "Forward")
                <=> (Distance(n, TimestampOf(gate.req)) <= MAX_TIMESTAMP_DIFF_MS)

\* C38: for every X-Timestamp that parses as an i64, the window check rejects
\* the request whenever the true distance between now_ms and the timestamp
\* exceeds 5000, and never aborts the request task.
C38_WindowCheckIsExactOnI64 ==
    (/\ gate.req # NoHttp
     /\ gate.req.x_signature.kind \notin {"missing", "not_str"}
     /\ gate.req.x_timestamp.kind = "text"
     /\ IsSome(ParseI64(gate.req.x_timestamp.text))) =>
        /\ gate.out.result # "Panic"
        /\ Distance(gate.now, TimestampOf(gate.req)) > MAX_TIMESTAMP_DIFF_MS =>
              (gate.out.result = "Reject" /\ ~gate.handled)

\* C39: with no refresh running concurrently, a minting refresh is never
\* answered Conflict: from every valid creation tag, the tag each mint
\* produces is not among the tags stored for the secret, also when the
\* trailing decimal run is the largest value of the integer or beyond it.
C39_SequentialMintNeverConflicts ==
    /\ resp.error # "Conflict"
    /\ resp.status = 200 =>
          \A s \in secrets :
              /\ s.current_version = Some(resp.version_tag)
              /\ s.current_version # s.previous_version
              /\ Cardinality(TagsOf(s.name)) = now + 1

====
